---- MODULE Spec2Model ----
(***************************************************************************)
(* Model of the chuingho-server recommendation core:                       *)
(*   - resume intake   (handler.ResumeHandler.UploadResume followed by     *)
(*                      service.ResumeService.UploadResume)                *)
(*   - recommendation  (handler.TitleHandler.GenerateTitles followed by    *)
(*                      service.TitleService.GenerateTitles and its        *)
(*                      fallback generateTitlesLegacy)                     *)
(*                                                                         *)
(* Encodings.                                                              *)
(*   Text      a sequence of runs [cls, n]: n consecutive characters of    *)
(*             one class.  Classes: "ascii" (1-byte letter), "hangul"      *)
(*             (3-byte syllable), "space" (ASCII white space, 1 byte),     *)
(*             "nbsp" (U+00A0: Unicode white space, 2 bytes, not matched   *)
(*             by the regexp class \s).                                    *)
(*   Phrase    a sequence of tokens, rendered with single spaces.          *)
(*   Score     a similarity multiplied by Scale, an integer.               *)
(*   Message   an error string as the sequence of the pieces it is         *)
(*             concatenated from; string equality is sequence equality.    *)
(***************************************************************************)
EXTENDS Integers, Sequences, FiniteSets, TLC

VARIABLES
    \* ---- resume store (table resumes) ----
    resumes,          \* id -> [content, status], only for the stored ids
    \* ---- one POST /v1/titles request ----
    pc,               \* position of the request in GenerateTitles
    reqId,            \* resumeID of the request
    content,          \* local variable content
    dynOutcome,       \* what GenerateDynamicCombinations answered
    dynamicResponse,  \* local variable dynamicResponse
    embeddingOk,      \* whether GetEmbedding answered without error
    searchResults,    \* (searchResults, err) of vectorDB.Search
    selected,         \* GetRandomTitles: indices chosen so far
    idx,              \* GetRandomTitles: last value of rand.Intn
    calls,            \* log of the calls made to the collaborators
    resp,             \* (response, error) returned by GenerateTitles
    httpStatus,       \* status code written by the handler
    saved,            \* rows inserted into title_recommendations (their titles)
    processingAccepted, \* whether UpdateResumeStatus(PROCESSING) succeeded
    queryOk,          \* whether the SELECT of GetResume ran without a database error
    ctxDoneAt,        \* -1 while the request's context is live, else Len(calls) when it was cancelled
    \* ---- one POST /v1/resumes request ----
    upPc,             \* "received" or "done"
    upText,           \* req.Text
    upHttp,           \* status code written by the handler
    upResp,           \* the UploadResumeResponse written, if any
    upDbOk,           \* whether the transaction of the upload committed
    \* ---- one call of a reranker (diversityRanking / selectDiverseCombinations) ----
    rrWhich,          \* "coordinator" or "testserver"
    rrResults,        \* the list the reranker is given
    rrTopK,           \* the topK it is given
    rrOut,            \* the list it returns
    rrPc,             \* "off", "called" or "done"
    \* ---- one call of calculateStringSimilarity ----
    simA,             \* argument a
    simB,             \* argument b
    simOut,           \* the value returned, times Scale
    simPc,            \* "off", "called" or "done"
    \* ---- the vector index FaissDB and its snapshot file ----
    fdPc,             \* "off", "new" (constructed), "open" (initialized) or "closed"
    fdGen,            \* 1 for the first instance, 2 for the one opened after Close
    fdVectors,        \* f.vectors: id -> VectorRecord
    fdNil,            \* whether f.vectors is the nil map
    fdFile,           \* vectors.json under indexPath
    fdLoaded,         \* what kind of file Initialize found
    fdOps,            \* calls made on the instance since Initialize
    fdLast,           \* the last call and how it ended
    fdBefore,         \* f.vectors and the file before the last call
    fdSearch,         \* arguments and answer of the last Search
    fdClosed,         \* f.vectors of the first instance when it was closed
    fdAllOk,          \* whether every mutation call so far returned nil
    fdAdded,          \* the record of the last AddVectors of one record
    fdAddTotal,       \* TotalVectors before that AddVectors
    fdAddFresh,       \* whether the index held no record with that id before it
    fdPair,           \* whether the last two calls were AddVectors([r]), Delete([r.id])
    \* ---- one MLClient.makeRequest call ----
    rqPc,             \* "off", "loop" (the for test), "wait", "send" or "done"
    rqRetryCount,     \* c.config.RetryCount
    rqAttempt,        \* the loop variable attempt
    rqSent,           \* HTTP requests handed to the transport so far
    rqCancelled,      \* whether ctx is done
    rqCancelAt,       \* rqSent when ctx was cancelled during a wait, -1 before
    rqResult,         \* how the call returned
    rqOutcomes,       \* how each iteration of the loop ended
    rqWaits,          \* the seconds of each wait that elapsed
    rqUnread,         \* what of jsonData is still unread in requestBody
    rqBodies,         \* the body of each request handed to the transport
    \* ---- the test server's DynamicCombinationGenerator ----
    gnPc,             \* "off", "new", "loaded" or "done"
    gnAdjectives,     \* dcg.adjectives
    gnNouns,          \* dcg.nouns
    gnTopK,           \* topK of the last GenerateDynamicCombinations
    gnPool,           \* the local combinations of that call
    gnOut,            \* the map it returned
    \* ---- two GenerateTitles calls in the same surroundings ----
    dtPc,             \* "off", "ready" or "done"
    dtEnv,            \* the resume, the ML answers and the index, the same for both
    dtRuns,           \* the outcome of each call made so far
    \* ---- one call of filterRelevantWords ----
    fwPc,             \* "off", "called" or "done"
    fwWords,          \* the words with the scores calculateKeywordRelevance gives them
    fwTopK,           \* topK
    fwOut,            \* the list returned
    \* ---- goroutines calling one FaissDB at the same time ----
    mxVectors,        \* f.vectors: the records held, each with the call that wrote it
    mxWriters,        \* the goroutines holding f.mutex for writing
    mxReaders,        \* the goroutines holding f.mutex for reading
    mxPc,             \* position of each goroutine in its call
    mxCall,           \* the method each goroutine calls
    mxStep,           \* records or ids its loop has handled
    mxSeen,           \* the values of f.vectors it has read
    mxReturned,       \* the values f.vectors had whenever a mutation returned
    mxTogether        \* the largest number of goroutines that held the read lock together

vars == << resumes, pc, reqId, content, dynOutcome, dynamicResponse, embeddingOk,
           searchResults, selected, idx, calls, resp, httpStatus, saved,
           processingAccepted, queryOk, ctxDoneAt, upPc, upText, upHttp, upResp, upDbOk,
           rrWhich, rrResults, rrTopK, rrOut, rrPc,
           simA, simB, simOut, simPc,
           fdPc, fdGen, fdVectors, fdNil, fdFile, fdLoaded, fdOps, fdLast, fdBefore,
           fdSearch, fdClosed, fdAllOk, fdAdded, fdAddTotal, fdAddFresh, fdPair,
           rqPc, rqRetryCount, rqAttempt, rqSent, rqCancelled, rqCancelAt, rqResult,
           rqOutcomes, rqWaits, rqUnread, rqBodies,
           gnPc, gnAdjectives, gnNouns, gnTopK, gnPool, gnOut,
           dtPc, dtEnv, dtRuns,
           fwPc, fwWords, fwTopK, fwOut,
           mxVectors, mxWriters, mxReaders, mxPc, mxCall, mxStep, mxSeen, mxReturned,
           mxTogether >>

titleVars == << pc, reqId, content, dynOutcome, dynamicResponse, embeddingOk,
                searchResults, selected, idx, calls, resp, httpStatus, saved,
                processingAccepted, queryOk, ctxDoneAt >>

intakeVars == << upPc, upText, upHttp, upResp, upDbOk >>

rerankVars == << rrWhich, rrResults, rrTopK, rrOut, rrPc >>

similarityVars == << simA, simB, simOut, simPc >>

faissVars == << fdPc, fdGen, fdVectors, fdNil, fdFile, fdLoaded, fdOps, fdLast, fdBefore,
               fdSearch, fdClosed, fdAllOk, fdAdded, fdAddTotal, fdAddFresh, fdPair >>

retryVars == << rqPc, rqRetryCount, rqAttempt, rqSent, rqCancelled, rqCancelAt, rqResult,
               rqOutcomes, rqWaits, rqUnread, rqBodies >>

generatorVars == << gnPc, gnAdjectives, gnNouns, gnTopK, gnPool, gnOut >>

runsVars == << dtPc, dtEnv, dtRuns >>

filterVars == << fwPc, fwWords, fwTopK, fwOut >>

lockVars == << mxVectors, mxWriters, mxReaders, mxPc, mxCall, mxStep, mxSeen, mxReturned,
              mxTogether >>

extraVars == << filterVars, lockVars >>

clientVars == << retryVars, generatorVars, runsVars, extraVars >>

\* the state of the components exercised on their own
libVars == << rerankVars, similarityVars, faissVars, clientVars >>

\* everything but the state of one component
notRerankVars == << resumes, titleVars, intakeVars, similarityVars, faissVars, clientVars >>

notSimilarityVars == << resumes, titleVars, intakeVars, rerankVars, faissVars, clientVars >>

notFaissVars == << resumes, titleVars, intakeVars, rerankVars, similarityVars, clientVars >>

notRetryVars == << resumes, titleVars, intakeVars, rerankVars, similarityVars, faissVars,
                  generatorVars, runsVars, extraVars >>

notGeneratorVars == << resumes, titleVars, intakeVars, rerankVars, similarityVars, faissVars,
                      retryVars, runsVars, extraVars >>

notRunsVars == << resumes, titleVars, intakeVars, rerankVars, similarityVars, faissVars,
                 retryVars, generatorVars, extraVars >>

notFilterVars == << resumes, titleVars, intakeVars, rerankVars, similarityVars, faissVars,
                   retryVars, generatorVars, runsVars, lockVars >>

notLockVars == << resumes, titleVars, intakeVars, rerankVars, similarityVars, faissVars,
                 retryVars, generatorVars, runsVars, filterVars >>

-----------------------------------------------------------------------------
(* Bounds of the model *)

MaxRuns == 3        \* runs in a submitted text
MaxHits == 6        \* results a Search call returns
MaxCombos == 4      \* combinations in one ML response
MaxDetails == 6     \* entries of details / top_similar in one ML response

-----------------------------------------------------------------------------
(* Program constants *)

MinTextLength == 10          \* binding min=10, textLength < 10, len(...) < 10
MaxTextLength == 50000       \* binding max=50000, textLength > 50000
RecommendK == 3              \* GenerateDynamicCombinations(ctx, content, 3), diversityRanking(.., 3)
SearchTopK == 50             \* vectorDB.Search(ctx, embedding, 50)
TopSimilarLimit == 5         \* limit := 5 / detailsCopy[:5]
RandomCount == 3             \* GetRandomTitles selects 3
Scale == 3000                \* fixed-point unit: a score s is stored as s * Scale

StatusOK == 200
StatusBadRequest == 400
StatusNotFound == 404
StatusRequestEntityTooLarge == 413
StatusInternalServerError == 500

NoResponse == "none"
NoError == << >>
SearchError == [err |-> TRUE, results |-> << >>]
NoSearch == [err |-> FALSE, results |-> << >>]
NoDynamicResponse == [err |-> FALSE, combinations |-> << >>, details |-> << >>, top_similar |-> << >>]
NoResult == [err |-> << >>, titles |-> << >>, top_similar |-> << >>]

-----------------------------------------------------------------------------
(* Generic helpers *)

Min(a, b) == IF a < b THEN a ELSE b

Range(s) == { s[i] : i \in 1..Len(s) }

SeqsUpTo(S, n) == UNION { [1..k -> S] : k \in 0..n }

-----------------------------------------------------------------------------
(* Text: length in code points, length in bytes, util.CleanText *)

CharClasses == {"ascii", "hangul", "space", "nbsp"}

RunLens == {1, 5, 9, 49990, 50000}

Width(cls) ==
    CASE cls = "ascii" -> 1
      [] cls = "space" -> 1
      [] cls = "nbsp" -> 2
      [] cls = "hangul" -> 3

Texts == SeqsUpTo([cls : CharClasses, n : RunLens], MaxRuns)

RECURSIVE RuneLen(_)
\* len([]rune(text))
RuneLen(t) == IF t = << >> THEN 0 ELSE Head(t).n + RuneLen(Tail(t))

RECURSIVE ByteLen(_)
\* len(text) of a Go string: bytes of its UTF-8 encoding
ByteLen(t) == IF t = << >> THEN 0 ELSE Head(t).n * Width(Head(t).cls) + ByteLen(Tail(t))

RECURSIVE CollapseWhitespace(_)
\* regexp.MustCompile(`\s+`).ReplaceAllString(text, " ")
CollapseWhitespace(t) ==
    IF t = << >> THEN << >>
    ELSE LET rest == CollapseWhitespace(Tail(t))
         IN  IF Head(t).cls = "space"
             THEN IF rest # << >> /\ Head(rest).cls = "space"
                  THEN rest
                  ELSE << [cls |-> "space", n |-> 1] >> \o rest
             ELSE << Head(t) >> \o rest

IsUnicodeSpace(cls) == cls \in {"space", "nbsp"}

RECURSIVE TrimLeft(_)
TrimLeft(t) ==
    IF t # << >> /\ IsUnicodeSpace(Head(t).cls) THEN TrimLeft(Tail(t)) ELSE t

RECURSIVE TrimRight(_)
TrimRight(t) ==
    IF t # << >> /\ IsUnicodeSpace(t[Len(t)].cls)
    THEN TrimRight(SubSeq(t, 1, Len(t) - 1))
    ELSE t

\* strings.TrimSpace
TrimSpace(t) == TrimRight(TrimLeft(t))

CleanText(text) == TrimSpace(CollapseWhitespace(text))

-----------------------------------------------------------------------------
(* Intake: POST /v1/resumes *)

\* binding:"required,min=10,max=50000" on UploadResumeRequest.Text
\* (the validator counts the runes of a string)
BindingValid(text) ==
    /\ RuneLen(text) > 0
    /\ RuneLen(text) >= MinTextLength
    /\ RuneLen(text) <= MaxTextLength

\* ResumeService.UploadResume up to its length check: whether it goes on to
\* store cleanedText, or answers "too short"
ServiceAccepts(text) ==
    LET cleanedText == CleanText(text)
    IN  ~(ByteLen(cleanedText) < MinTextLength)

ResumeIds == {"r1", "r2"}

\* ResumeHandler.UploadResume, with the call of ResumeService.UploadResume;
\* dbOk: whether the transaction of the service commits
UploadOutcome(text, dbOk) ==
    IF ~BindingValid(text)
    THEN [http |-> StatusBadRequest, ok |-> FALSE, stored |-> << >>]
    ELSE IF RuneLen(text) < MinTextLength
    THEN [http |-> StatusBadRequest, ok |-> FALSE, stored |-> << >>]
    ELSE IF RuneLen(text) > MaxTextLength
    THEN [http |-> StatusRequestEntityTooLarge, ok |-> FALSE, stored |-> << >>]
    ELSE IF ~ServiceAccepts(text) \/ ~dbOk
    THEN [http |-> StatusInternalServerError, ok |-> FALSE, stored |-> << >>]
    ELSE [http |-> StatusOK, ok |-> TRUE, stored |-> CleanText(text)]

UploadResume(dbOk) ==
    /\ upPc = "received"
    /\ LET out == UploadOutcome(upText, dbOk)
       IN  /\ upHttp' = out.http
           /\ IF ~out.ok
              THEN /\ upResp' = [ok |-> FALSE, resumeId |-> NoResponse, status |-> NoResponse]
                   /\ UNCHANGED resumes
              ELSE \E id \in ResumeIds \ DOMAIN resumes :
                     /\ upResp' = [ok |-> TRUE, resumeId |-> id, status |-> "uploaded"]
                     /\ resumes' = [i \in DOMAIN resumes \cup {id} |->
                                      IF i = id
                                      THEN [content |-> out.stored, status |-> "uploaded"]
                                      ELSE resumes[i]]
    /\ upPc' = "done"
    /\ upDbOk' = dbOk
    /\ UNCHANGED << upText, titleVars, libVars >>

-----------------------------------------------------------------------------
(* Phrases, scored entries and the diversity reranking of the fallback *)

RelevanceWeight == 5         \* relevanceScore := candidate.Score * 0.5   (tenths)
DiversityWeight == 5         \* diversityScore := calculateDiversity(..) * 0.5   (tenths)
WeightUnit == 10             \* the weights above are tenths
FirstTokenSimilarity == 1800 \* 0.6 * Scale: same first token

Phrase(a, b) == << a, b >>

\* calculateStringSimilarity after tokenize, without the bump for a common
\* first token
TokenSimilarity_NoFirstTokenBump(tokensA, tokensB) ==
    LET setA == Range(tokensA)
        setB == Range(tokensB)
        inter == Cardinality(setA \cap setB)
        uni == Cardinality(setA) + Cardinality(setB \ setA)
    IN  IF uni > 0 THEN (inter * Scale) \div uni ELSE 0

\* TitleService.calculateStringSimilarity after tokenize, times Scale
TokenSimilarity(tokensA, tokensB) ==
    LET setA == Range(tokensA)
        setB == Range(tokensB)
        inter == Cardinality(setA \cap setB)
        uni == Cardinality(setA) + Cardinality(setB \ setA)
        jaccard == IF uni > 0 THEN (inter * Scale) \div uni ELSE 0
    IN  IF Len(tokensA) > 0 /\ Len(tokensB) > 0 /\ tokensA[1] = tokensB[1]
        THEN IF jaccard < FirstTokenSimilarity THEN FirstTokenSimilarity ELSE jaccard
        ELSE jaccard

\* TitleService.calculateStringSimilarity, times Scale; a and b are phrases
\* given as their token lists (equal phrases have equal token lists)
calculateStringSimilarity(a, b) ==
    IF a = b THEN Scale ELSE TokenSimilarity(a, b)

RECURSIVE MinSimilarity(_, _, _, _)
MinSimilarity(candidate, sel, i, minSimilarity) ==
    IF i > Len(sel) THEN minSimilarity
    ELSE LET similarity == calculateStringSimilarity(candidate, sel[i].phrase)
         IN  MinSimilarity(candidate, sel, i + 1,
                           IF similarity < minSimilarity THEN similarity ELSE minSimilarity)

\* TitleService.calculateDiversity, times Scale
calculateDiversity(candidate, sel) ==
    IF Len(sel) = 0 THEN Scale
    ELSE Scale - MinSimilarity(candidate, sel, 1, Scale)

RECURSIVE BestIdx(_, _, _, _, _)
\* the inner loop of diversityRanking: scores are compared in units of
\* Scale * WeightUnit, bestScore starts at -1
BestIdx(remaining, sel, i, bestIdx, bestScore) ==
    IF i > Len(remaining) THEN bestIdx
    ELSE LET totalScore == remaining[i].score * RelevanceWeight
                           + calculateDiversity(remaining[i].phrase, sel) * DiversityWeight
         IN  IF totalScore > bestScore
             THEN BestIdx(remaining, sel, i + 1, i, totalScore)
             ELSE BestIdx(remaining, sel, i + 1, bestIdx, bestScore)

RemoveAt(s, i) == SubSeq(s, 1, i - 1) \o SubSeq(s, i + 1, Len(s))

RECURSIVE SelectLoop(_, _, _)
\* the outer loop of diversityRanking
SelectLoop(sel, remaining, topK) ==
    IF Len(sel) < topK /\ Len(remaining) > 0
    THEN LET b == BestIdx(remaining, sel, 1, 1, (0 - 1) * Scale * WeightUnit)
         IN  SelectLoop(Append(sel, remaining[b]), RemoveAt(remaining, b), topK)
    ELSE sel

PhrasesOf(results) == [i \in 1..Len(results) |-> results[i].phrase]

\* diversityRanking with the selection loop stopping one entry early
diversityRanking_OneShort(results, topK) ==
    IF Len(results) <= topK
    THEN PhrasesOf(results)
    ELSE PhrasesOf(SelectLoop(<< results[1] >>, Tail(results), topK - 1))

\* TitleService.diversityRanking
diversityRanking(results, topK) ==
    IF Len(results) <= topK
    THEN PhrasesOf(results)
    ELSE PhrasesOf(SelectLoop(<< results[1] >>, Tail(results), topK))

-----------------------------------------------------------------------------
(* GetRandomTitles *)

defaultTitles ==
    << Phrase("creative", "innovator"),   Phrase("passionate", "challenger"),
       Phrase("delicate", "analyst"),     Phrase("active", "leader"),
       Phrase("prudent", "strategist"),   Phrase("flexible", "communicator"),
       Phrase("persistent", "executor"),  Phrase("cooperative", "teamworker"),
       Phrase("logical", "thinker"),      Phrase("emotional", "planner"),
       Phrase("systematic", "manager"),   Phrase("intuitive", "solver") >>

\* GetRandomTitles without the used[] bookkeeping
IndexUsed_Never(i, sel) == FALSE

\* used[idx] of GetRandomTitles, sel being the indices selected so far
IndexUsed(i, sel) == i \in Range(sel)

RandomTitlesOf(sel) == [k \in 1..Len(sel) |-> defaultTitles[sel[k] + 1]]

-----------------------------------------------------------------------------
(* The collaborators of TitleService and what they can answer *)

\* resumes the table can hold when a recommendation is requested: texts that
\* intake stored, and rows that did not come through intake
StoredTexts ==
    { << [cls |-> "ascii", n |-> 12] >>,
      << [cls |-> "hangul", n |-> 4] >>,
      << [cls |-> "ascii", n |-> 9] >>,
      << [cls |-> "hangul", n |-> 3] >> }

MLPhrases == { Phrase("a1", "n1"), Phrase("a2", "n2") }

\* CombinationDetail values the ML service can send
MLEntries == { [phrase |-> Phrase("a1", "n1"), similarity |-> 2700],
               [phrase |-> Phrase("a2", "n2"), similarity |-> 2400] }

MLError == [err |-> TRUE, combinations |-> << >>, details |-> << >>, top_similar |-> << >>]

\* details index-aligned with the combinations
AlignedDetails(c) ==
    [i \in 1..Len(c) |-> CHOOSE e \in MLEntries : e.phrase = c[i]]

\* (DynamicCombinationResponse, error) as MLClient.GenerateDynamicCombinations
\* returns it: the JSON of the ML service is taken as it comes
MLOutcomes ==
    {MLError}
    \cup { [err |-> FALSE, combinations |-> c, details |-> AlignedDetails(c), top_similar |-> t] :
             c \in SeqsUpTo(MLPhrases, MaxCombos),
             t \in SeqsUpTo(MLEntries, MaxDetails) \ {<< >>} }
    \cup { [err |-> FALSE, combinations |-> c, details |-> d, top_similar |-> << >>] :
             c \in SeqsUpTo(MLPhrases, MaxCombos),
             d \in SeqsUpTo(MLEntries, MaxDetails) }

SearchPhrases == { Phrase("a1", "n1"), Phrase("a1", "n2"), Phrase("a2", "n3") }

SearchScores == {2400, 2700}

SearchHits == [phrase : SearchPhrases, score : SearchScores]

IsDescending(s) == \A i \in 1..(Len(s) - 1) : s[i].score >= s[i + 1].score

\* what VectorDB.Search(ctx, embedding, topK) answers: an error, or at most
\* topK results in descending score order
SearchOutcomes ==
    {SearchError}
    \cup { [err |-> FALSE, results |-> s] :
             s \in { q \in SeqsUpTo(SearchHits, Min(MaxHits, SearchTopK)) : IsDescending(q) } }

-----------------------------------------------------------------------------
(* Error messages *)

NotFoundMessage == "resume not found"
TooShortMessage == "resume content too short"

\* GetResume with sql.ErrNoRows swallowed: an empty resume and no error
GetResume_NoRowsIgnored(table, id, dbOk) ==
    IF ~dbOk
    THEN [content |-> << >>, err |-> << "resume query failed: ", "db error" >>]
    ELSE IF id \notin DOMAIN table
    THEN [content |-> << >>, err |-> NoError]
    ELSE [content |-> table[id].content, err |-> NoError]

\* ResumeService.GetResume: (content, err)
GetResume(table, id, dbOk) ==
    IF ~dbOk
    THEN [content |-> << >>, err |-> << "resume query failed: ", "db error" >>]
    ELSE IF id \notin DOMAIN table
    THEN [content |-> << >>, err |-> << NotFoundMessage, ": ", id >>]
    ELSE [content |-> table[id].content, err |-> NoError]

\* ResumeService.GetResumeContent
GetResumeContent(table, id, dbOk) == GetResume(table, id, dbOk)

\* ResumeService.UpdateResumeStatus: UPDATE resumes SET status WHERE id
UpdateResumeStatus(table, id, status) ==
    [i \in DOMAIN table |->
        IF i = id THEN [table[i] EXCEPT !.status = status] ELSE table[i]]

\* len(content) < 10 in GenerateTitles
ContentTooShort(c) == ByteLen(c) < MinTextLength

\* the fallback test without the empty-list case
DynamicPathFailed_ErrorOnly(r) == r.err

\* the two tests that send GenerateTitles to generateTitlesLegacy
DynamicPathFailed(r) == r.err \/ Len(r.combinations) = 0

RECURSIVE InsertDesc(_, _)
InsertDesc(e, s) ==
    IF s = << >> THEN << e >>
    ELSE IF e.similarity > Head(s).similarity THEN << e >> \o s
    ELSE << Head(s) >> \o InsertDesc(e, Tail(s))

RECURSIVE SortBySimilarity(_)
\* sort.Slice(detailsCopy, Similarity descending); entries of MLEntries with
\* equal similarity are equal, so every order sort.Slice may leave them in
\* is this one
SortBySimilarity(d) ==
    IF d = << >> THEN << >>
    ELSE InsertDesc(d[Len(d)], SortBySimilarity(SubSeq(d, 1, Len(d) - 1)))

\* topSimilar of the dynamic path
TopSimilarOf(r) ==
    IF Len(r.top_similar) = 0 /\ Len(r.details) > 0
    THEN LET detailsCopy == SortBySimilarity(r.details)
         IN  IF Len(detailsCopy) > TopSimilarLimit
             THEN SubSeq(detailsCopy, 1, TopSimilarLimit)
             ELSE detailsCopy
    ELSE r.top_similar

\* topSimilar of generateTitlesLegacy
LegacyTopSimilar(results) ==
    LET limit == IF Len(results) < TopSimilarLimit THEN Len(results) ELSE TopSimilarLimit
    IN  [i \in 1..limit |-> [phrase |-> results[i].phrase, similarity |-> results[i].score]]

\* generateTitlesLegacy after GetEmbedding
LegacyAfterEmbedding(ok) == IF ok THEN "search" ELSE "fail"

\* generateTitlesLegacy with a Search error handled like an empty result
LegacyAfterSearch_ErrorAsEmpty(res) ==
    IF res.err \/ Len(res.results) = 0 THEN "random"
    ELSE "rank"

\* generateTitlesLegacy after vectorDB.Search
LegacyAfterSearch(res) ==
    IF res.err THEN "fail"
    ELSE IF Len(res.results) = 0 THEN "random"
    ELSE "rank"

\* TitleHandler.GenerateTitles: the status code for the error of the service
TitleHandlerStatus(err) ==
    IF err = NoError THEN StatusOK
    ELSE IF err = << NotFoundMessage >> THEN StatusNotFound
    ELSE IF err = << TooShortMessage >> THEN StatusBadRequest
    ELSE StatusInternalServerError

-----------------------------------------------------------------------------
(* POST /v1/titles: TitleHandler.GenerateTitles calling TitleService.GenerateTitles *)

Call(op, arg) == [op |-> op, arg |-> arg]

Succeeded(titles, topSimilar) ==
    [err |-> NoError, titles |-> titles, top_similar |-> topSimilar]

Failed(err) == [err |-> err, titles |-> << >>, top_similar |-> << >>]

\* return of GenerateTitles to the handler, which writes the status code
Return(r) ==
    /\ resp' = r
    /\ httpStatus' = TitleHandlerStatus(r.err)
    /\ pc' = "done"

\* ctx.Done() is closed: every call that takes ctx to the database or to the
\* ML service returns the context's error
ctxDone == ctxDoneAt # -1

\* UpdateResumeStatus(FAILED), its error ignored, followed by return nil, err
ReturnFailed(newCalls, err) ==
    /\ calls' = calls \o newCalls \o << Call("UpdateResumeStatus", "failed") >>
    /\ resumes' = IF ctxDone THEN resumes ELSE UpdateResumeStatus(resumes, reqId, "failed")
    /\ Return(Failed(err))

Begin(id, dbOk) ==
    /\ pc = "idle"
    /\ ctxDone => ~dbOk
    /\ reqId' = id
    /\ calls' = << Call("UpdateResumeStatus", "processing") >>
    /\ IF dbOk
       THEN /\ resumes' = UpdateResumeStatus(resumes, id, "processing")
            /\ pc' = "load"
            /\ UNCHANGED << resp, httpStatus >>
       ELSE /\ Return(Failed(<< "status update failed: ", "resume status update failed: ", "db error" >>))
            /\ UNCHANGED resumes
    /\ processingAccepted' = dbOk
    /\ UNCHANGED << content, dynOutcome, dynamicResponse, embeddingOk, searchResults,
                    selected, idx, saved, queryOk, ctxDoneAt, intakeVars, libVars >>

LoadContent(dbOk) ==
    /\ pc = "load"
    /\ ctxDone => ~dbOk
    /\ LET got == GetResumeContent(resumes, reqId, dbOk)
           call == << Call("GetResumeContent", reqId) >>
       IN  IF got.err # NoError
           THEN /\ ReturnFailed(call, << "resume content lookup failed: " >> \o got.err)
                /\ UNCHANGED content
           ELSE /\ content' = got.content
                /\ calls' = calls \o call
                /\ pc' = "validate"
                /\ UNCHANGED << resumes, resp, httpStatus >>
    /\ queryOk' = dbOk
    /\ UNCHANGED << reqId, dynOutcome, dynamicResponse, embeddingOk, searchResults,
                    selected, idx, saved, processingAccepted, ctxDoneAt, intakeVars, libVars >>

ValidateLength ==
    /\ pc = "validate"
    /\ IF ContentTooShort(content)
       THEN ReturnFailed(<< >>, << TooShortMessage, " (at least 10 characters required)" >>)
       ELSE /\ pc' = "dynamic"
            /\ UNCHANGED << resumes, calls, resp, httpStatus >>
    /\ UNCHANGED << reqId, content, dynOutcome, dynamicResponse, embeddingOk, searchResults,
                    selected, idx, saved, processingAccepted, queryOk, ctxDoneAt, intakeVars, libVars >>

DynamicCombinations(r, saveOk) ==
    /\ pc = "dynamic"
    /\ ctxDone => (r.err /\ ~saveOk)
    /\ dynOutcome' = IF r.err THEN "error"
                     ELSE IF r.combinations = << >> THEN "empty" ELSE "ok"
    /\ IF DynamicPathFailed(r)
       THEN /\ calls' = Append(calls, Call("GenerateDynamicCombinations", RecommendK))
            /\ dynamicResponse' = NoDynamicResponse
            /\ pc' = "legacy"
            /\ UNCHANGED << resumes, resp, httpStatus, saved >>
       ELSE /\ dynamicResponse' = r
            /\ saved' = IF saveOk THEN << r.combinations >> ELSE << >>
            /\ calls' = calls \o << Call("GenerateDynamicCombinations", RecommendK),
                                    Call("UpdateResumeStatus", "completed") >>
            /\ resumes' = UpdateResumeStatus(resumes, reqId, "completed")
            /\ Return(Succeeded(r.combinations, TopSimilarOf(r)))
    /\ UNCHANGED << reqId, content, embeddingOk, searchResults, selected, idx,
                    processingAccepted, queryOk, ctxDoneAt, intakeVars, libVars >>

LegacyEmbedding(ok) ==
    /\ pc = "legacy"
    /\ ctxDone => ~ok
    /\ embeddingOk' = ok
    /\ IF LegacyAfterEmbedding(ok) = "fail"
       THEN ReturnFailed(<< Call("GetEmbedding", "content") >>,
                         << "embedding failed: ", "embedding request failed" >>)
       ELSE /\ calls' = Append(calls, Call("GetEmbedding", "content"))
            /\ pc' = "search"
            /\ UNCHANGED << resumes, resp, httpStatus >>
    /\ UNCHANGED << reqId, content, dynOutcome, dynamicResponse, searchResults,
                    selected, idx, saved, processingAccepted, queryOk, ctxDoneAt, intakeVars, libVars >>

LegacySearch(res) ==
    /\ pc = "search"
    /\ searchResults' = res
    /\ LET call == << Call("Search", SearchTopK) >>
           next == LegacyAfterSearch(res)
       IN  CASE next = "fail" ->
                  ReturnFailed(call, << "vector search failed: ", "dimension mismatch" >>)
             [] next = "random" ->
                  /\ calls' = calls \o call
                  /\ pc' = "random"
                  /\ UNCHANGED << resumes, resp, httpStatus >>
             [] next = "rank" ->
                  /\ calls' = calls \o call
                  /\ Return(Succeeded(diversityRanking(res.results, RecommendK),
                                      LegacyTopSimilar(res.results)))
                  /\ UNCHANGED resumes
    /\ UNCHANGED << reqId, content, dynOutcome, dynamicResponse, embeddingOk,
                    selected, idx, saved, processingAccepted, queryOk, ctxDoneAt, intakeVars, libVars >>

\* one turn of the inner for of GetRandomTitles that draws an index in use
RandomDrawUsed(i) ==
    /\ pc = "random"
    /\ IndexUsed(i, selected)
    /\ idx' = i
    /\ UNCHANGED << resumes, pc, reqId, content, dynOutcome, dynamicResponse, embeddingOk,
                    searchResults, selected, calls, resp, httpStatus, saved,
                    processingAccepted, queryOk, ctxDoneAt, intakeVars, libVars >>

\* one turn that draws a free index; the third one ends GetRandomTitles and
\* generateTitlesLegacy returns
RandomDrawFresh(i) ==
    /\ pc = "random"
    /\ ~IndexUsed(i, selected)
    /\ idx' = i
    /\ selected' = Append(selected, i)
    /\ IF Len(selected) + 1 = RandomCount
       THEN Return(Succeeded(RandomTitlesOf(Append(selected, i)), << >>))
       ELSE UNCHANGED << pc, resp, httpStatus >>
    /\ UNCHANGED << resumes, reqId, content, dynOutcome, dynamicResponse, embeddingOk,
                    searchResults, calls, saved, processingAccepted, queryOk, ctxDoneAt, intakeVars, libVars >>

TitleIdle ==
    /\ pc = "idle"
    /\ reqId = NoResponse
    /\ content = << >>
    /\ dynOutcome = NoResponse
    /\ dynamicResponse = NoDynamicResponse
    /\ embeddingOk = FALSE
    /\ searchResults = NoSearch
    /\ selected = << >>
    /\ idx = 0
    /\ calls = << >>
    /\ resp = NoResult
    /\ httpStatus = 0
    /\ saved = << >>
    /\ processingAccepted = FALSE
    /\ queryOk = FALSE
    /\ ctxDoneAt = -1

IntakeIdle ==
    /\ upPc = "done"
    /\ upText = << >>
    /\ upHttp = 0
    /\ upResp = [ok |-> FALSE, resumeId |-> NoResponse, status |-> NoResponse]
    /\ upDbOk = TRUE

RerankIdle ==
    /\ rrWhich = NoResponse
    /\ rrResults = << >>
    /\ rrTopK = 0
    /\ rrOut = << >>
    /\ rrPc = "off"

SimilarityIdle ==
    /\ simA = << >>
    /\ simB = << >>
    /\ simOut = 0
    /\ simPc = "off"

NoCall == [op |-> "none", err |-> "nil", valid |-> TRUE, writeOk |-> TRUE]

NoIndex == [vectors |-> << >>, nil |-> FALSE]

NoFile == [kind |-> "missing", data |-> << >>]

NoSearchCall == [query |-> << >>, topK |-> 0, outcome |-> "none", results |-> << >>]

NoRecord == [id |-> NoResponse, phrase |-> NoResponse]

FaissIdle ==
    /\ fdPc = "off"
    /\ fdGen = 0
    /\ fdVectors = << >>
    /\ fdNil = FALSE
    /\ fdFile = NoFile
    /\ fdLoaded = NoResponse
    /\ fdOps = 0
    /\ fdLast = NoCall
    /\ fdBefore = [vectors |-> << >>, nil |-> FALSE, file |-> NoFile]
    /\ fdSearch = NoSearchCall
    /\ fdClosed = NoIndex
    /\ fdAllOk = TRUE
    /\ fdAdded = NoRecord
    /\ fdAddTotal = 0
    /\ fdAddFresh = TRUE
    /\ fdPair = FALSE

RetryIdle ==
    /\ rqPc = "off"
    /\ rqRetryCount = 0
    /\ rqAttempt = 0
    /\ rqSent = 0
    /\ rqCancelled = FALSE
    /\ rqCancelAt = -1
    /\ rqResult = NoResponse
    /\ rqOutcomes = << >>
    /\ rqWaits = << >>
    /\ rqUnread = "nil"
    /\ rqBodies = << >>

NoOutput == [combinations |-> << >>, details |-> << >>, total_generated |-> 0,
             filtered_adjectives |-> 0, filtered_nouns |-> 0]

GeneratorIdle ==
    /\ gnPc = "off"
    /\ gnAdjectives = << >>
    /\ gnNouns = << >>
    /\ gnTopK = 0
    /\ gnPool = << >>
    /\ gnOut = NoOutput

RunsIdle ==
    /\ dtPc = "off"
    /\ dtEnv = NoResponse
    /\ dtRuns = << >>

FilterIdle ==
    /\ fwPc = "off"
    /\ fwWords = << >>
    /\ fwTopK = 0
    /\ fwOut = << >>

LockIdle ==
    /\ mxVectors = {}
    /\ mxWriters = {}
    /\ mxReaders = {}
    /\ mxPc = << >>
    /\ mxCall = << >>
    /\ mxStep = << >>
    /\ mxSeen = << >>
    /\ mxReturned = {}
    /\ mxTogether = 0

ExtraIdle ==
    /\ FilterIdle
    /\ LockIdle

ClientIdle ==
    /\ RetryIdle
    /\ GeneratorIdle
    /\ RunsIdle
    /\ ExtraIdle

LibIdle ==
    /\ RerankIdle
    /\ SimilarityIdle
    /\ FaissIdle
    /\ ClientIdle

\* the resumes table holds one resume, "r1"; "r2" is an identifier it does not know
Init ==
    /\ \E t \in StoredTexts :
         resumes = [i \in {"r1"} |-> [content |-> t, status |-> "uploaded"]]
    /\ TitleIdle
    /\ IntakeIdle
    /\ LibIdle

\* the dynamic path of GenerateTitles, for every answer of the ML service and
\* of the insert into title_recommendations
DynamicPath ==
    pc = "dynamic" /\ \E r \in MLOutcomes, saveOk \in BOOLEAN : DynamicCombinations(r, saveOk)

\* the Search step of generateTitlesLegacy, for every answer of the index
LegacyFallback ==
    pc = "search" /\ \E res \in SearchOutcomes : LegacySearch(res)

Next ==
    \/ \E id \in ResumeIds, dbOk \in BOOLEAN : Begin(id, dbOk)
    \/ \E dbOk \in BOOLEAN : LoadContent(dbOk)
    \/ ValidateLength
    \/ DynamicPath
    \/ \E ok \in BOOLEAN : LegacyEmbedding(ok)
    \/ LegacyFallback
    \/ \E i \in 0..(Len(defaultTitles) - 1) : RandomDrawUsed(i)
    \/ \E i \in 0..(Len(defaultTitles) - 1) : RandomDrawFresh(i)

Spec == Init /\ [][Next]_vars

\* the client goes away, or the deadline passes, while GenerateTitles runs:
\* c.Request.Context() is cancelled
CancelRequest ==
    /\ pc \notin {"idle", "done"}
    /\ ~ctxDone
    /\ ctxDoneAt' = Len(calls)
    /\ UNCHANGED << resumes, pc, reqId, content, dynOutcome, dynamicResponse, embeddingOk,
                    searchResults, selected, idx, calls, resp, httpStatus, saved,
                    processingAccepted, queryOk, intakeVars, libVars >>

NextCancel == Next \/ CancelRequest

SpecCancel == Init /\ [][NextCancel]_vars

\* rand.Intn draws every index again and again, so a free index is drawn
\* eventually
FairSpec == Spec /\ WF_vars(\E i \in 0..(Len(defaultTitles) - 1) : RandomDrawFresh(i))

InitIntake ==
    /\ resumes = << >>
    /\ TitleIdle
    /\ upPc = "received"
    /\ upText \in Texts
    /\ upHttp = 0
    /\ upResp = [ok |-> FALSE, resumeId |-> NoResponse, status |-> NoResponse]
    /\ upDbOk = TRUE
    /\ LibIdle

NextIntake == \E dbOk \in BOOLEAN : UploadResume(dbOk)

SpecIntake == InitIntake /\ [][NextIntake]_vars

-----------------------------------------------------------------------------
(* Observations used by the properties *)

IsExternalCall(c) == c.op \in {"GenerateDynamicCombinations", "GetEmbedding", "Search"}

IsStatusReport(c) == c.op = "UpdateResumeStatus"

\* the calls to the ML client and to the ANN index, in the order made
ExternalCalls == SelectSeq(calls, IsExternalCall)

\* the statuses reported to the resume store, in the order reported
Reported == SelectSeq(calls, IsStatusReport)

LastReported == Reported[Len(Reported)].arg

DynamicFailed == dynOutcome \in {"error", "empty"}

Returned == pc = "done"

ReturnedResult == pc = "done" /\ resp.err = NoError

\* the fallback ran to a successful Search
SearchSucceeded == DynamicFailed /\ embeddingOk /\ pc \in {"random", "done"} /\ ~searchResults.err

Distinct(s) == \A i, j \in 1..Len(s) : i # j => s[i] # s[j]

-----------------------------------------------------------------------------
(* C1: when GenerateDynamicCombinations answers an error or an empty list,
   the next external call is GetEmbedding and, once the embedding is there,
   Search with K = 50 follows, in that order; the request then fails only if
   the embedding or the search failed, and otherwise returns titles taken from
   the search (the default labels when the search found nothing).  When the
   dynamic path answers a non-empty list, neither GetEmbedding nor Search is
   called. *)
FallbackOnDynamicFailure ==
    /\ DynamicFailed =>
         /\ ExternalCalls[1] = Call("GenerateDynamicCombinations", RecommendK)
         /\ pc \in {"legacy", "search", "random", "done"}
         /\ pc = "legacy" <=> Len(ExternalCalls) = 1
         /\ pc # "legacy" => ExternalCalls[2] = Call("GetEmbedding", "content")
         /\ Len(ExternalCalls) <= 3
         /\ Len(ExternalCalls) = 3 => embeddingOk /\ ExternalCalls[3] = Call("Search", SearchTopK)
         /\ pc \in {"random", "done"} /\ embeddingOk => Len(ExternalCalls) = 3
         /\ Returned /\ resp.err # NoError => ~embeddingOk \/ searchResults.err
         /\ Returned /\ embeddingOk /\ ~searchResults.err =>
              /\ resp.err = NoError
              /\ resp.titles # << >>
              /\ IF searchResults.results = << >>
                 THEN Range(resp.titles) \subseteq Range(defaultTitles)
                 ELSE Range(resp.titles) \subseteq Range(PhrasesOf(searchResults.results))
    /\ dynOutcome = "ok" =>
         /\ Returned
         /\ ExternalCalls = << Call("GenerateDynamicCombinations", RecommendK) >>

FallbackOnDynamicFailureWitness ==
    /\ Returned
    /\ dynOutcome = "empty"
    /\ resp.err = NoError
    /\ Len(searchResults.results) > RecommendK
    /\ ExternalCalls = << Call("GenerateDynamicCombinations", RecommendK),
                          Call("GetEmbedding", "content"),
                          Call("Search", SearchTopK) >>

(* C2: PROCESSING is the first thing reported, before the text is fetched or
   the ML client is called, and when the request has returned the last status
   reported is COMPLETED if it returned a result and FAILED if it returned an
   error after PROCESSING was accepted. *)
StatusProtocol ==
    /\ calls # << >> => calls[1] = Call("UpdateResumeStatus", "processing")
    /\ Returned /\ processingAccepted =>
         LastReported = IF resp.err = NoError THEN "completed" ELSE "failed"

(* C3: for a resume identifier the store does not know, no call to the ML
   client and no Search is ever made, and the request returns the not-found
   error of GetResume (wrapped by GenerateTitles), with no titles. *)
UnknownResumeNotFound ==
    (pc # "idle" /\ reqId \notin DOMAIN resumes) =>
        /\ ExternalCalls = << >>
        /\ pc \in {"load", "done"}
        /\ Returned /\ processingAccepted /\ queryOk =>
             /\ resp.err = << "resume content lookup failed: ", NotFoundMessage, ": ", reqId >>
             /\ resp.titles = << >>
             /\ LastReported = "failed"

UnknownResumeNotFoundWitness ==
    /\ Returned
    /\ reqId \notin DOMAIN resumes
    /\ processingAccepted
    /\ queryOk
    /\ NotFoundMessage \in Range(resp.err)

(* C4: the handler answers 404 when the identifier is unknown, 400 when the
   stored text is rejected as too short, 500 when the fallback failed and 200
   on success, for the errors as GetResume and GenerateTitles produce them. *)
HttpStatusMapping ==
    Returned =>
        /\ resp.err = NoError => httpStatus = StatusOK
        /\ NotFoundMessage \in Range(resp.err) => httpStatus = StatusNotFound
        /\ TooShortMessage \in Range(resp.err) => httpStatus = StatusBadRequest
        /\ DynamicFailed /\ resp.err # NoError => httpStatus = StatusInternalServerError

(* C5: when the dynamic path has failed and then the embedding call fails or
   Search answers an error, the request returns an error with no titles and
   reports FAILED; the default labels are never drawn in that case. *)
FallbackFailureIsFatal ==
    (DynamicFailed /\ pc \in {"random", "done"} /\ (~embeddingOk \/ searchResults.err)) =>
        /\ pc = "done"
        /\ resp.err # NoError
        /\ resp.titles = << >>
        /\ resp.top_similar = << >>
        /\ selected = << >>
        /\ LastReported = "failed"

FallbackFailureIsFatalWitness ==
    /\ Returned
    /\ dynOutcome = "error"
    /\ ~embeddingOk
    /\ resp.err # NoError

\* the response of a request whose Search succeeded with no result
DefaultedResponse ==
    (Returned /\ SearchSucceeded /\ searchResults.results = << >>) =>
        /\ resp.err = NoError
        /\ Len(resp.titles) = RandomCount
        /\ \A i \in 1..Len(resp.titles) :
             resp.titles[i] \in Range(defaultTitles) /\ resp.titles[i] # << >>
        /\ Distinct(resp.titles)
        /\ resp.top_similar = << >>
        /\ Cardinality(Range(defaultTitles)) = 12

(* C6: when the Search of the fallback succeeds with an empty result, the
   request returns without error exactly 3 non-empty, pairwise distinct titles
   out of the 12 default labels, with an empty top_similar; and the drawing of
   GetRandomTitles, once started, comes to an end. *)
DefaultedSafetyNet ==
    /\ []DefaultedResponse
    /\ (pc = "random") ~> (pc = "done")

DefaultedSafetyNetWitness ==
    /\ Returned
    /\ SearchSucceeded
    /\ searchResults.results = << >>
    /\ Len(selected) = RandomCount
    /\ resp.titles = RandomTitlesOf(selected)

TitleRelevances(title) ==
    IF dynOutcome = "ok"
    THEN { e.similarity : e \in { x \in Range(dynamicResponse.details)
                                        \cup Range(dynamicResponse.top_similar) :
                                    x.phrase = title } }
    ELSE { h.score : h \in { x \in Range(searchResults.results) : x.phrase = title } }

(* C8: in every successful response top_similar has at most 5 entries, in
   non-increasing similarity order; on the ANN fallback it is the first
   min(5, n) search results; and its first similarity is at least the
   relevance of every returned title. *)
TopSimilarContract ==
    ReturnedResult =>
        LET top == resp.top_similar
        IN  /\ Len(top) <= TopSimilarLimit
            /\ \A i \in 1..(Len(top) - 1) : top[i].similarity >= top[i + 1].similarity
            /\ (DynamicFailed /\ searchResults.results # << >>) =>
                 top = LegacyTopSimilar(searchResults.results)
            /\ top # << >> =>
                 \A i \in 1..Len(resp.titles) :
                    \A r \in TitleRelevances(resp.titles[i]) : top[1].similarity >= r

(* C9: intake decides by the code-point length L of the text alone: accepted
   with a fresh resumeId and status uploaded when 10 <= L <= 50000, 400 when
   L < 10, 413 when L > 50000 (the database being available). *)
IntakeDecidesByLength ==
    (upPc = "done" /\ upDbOk) =>
        LET L == RuneLen(upText)
        IN  /\ (MinTextLength <= L /\ L <= MaxTextLength) =>
                 /\ upHttp = StatusOK
                 /\ upResp.ok
                 /\ upResp.status = "uploaded"
                 /\ upResp.resumeId \in DOMAIN resumes
            /\ L < MinTextLength => upHttp = StatusBadRequest
            /\ L > MaxTextLength => upHttp = StatusRequestEntityTooLarge

(* C10: a stored text of fewer than 10 code points makes GenerateTitles return
   the too-short error, report FAILED and make no ML call; a stored text of at
   least 10 code points passes the check. *)
LengthCheckInCodePoints ==
    (pc \notin {"idle", "load"} /\ reqId \in DOMAIN resumes /\ queryOk) =>
        LET L == RuneLen(resumes[reqId].content)
        IN  /\ L < MinTextLength =>
                 /\ pc \in {"validate", "done"}
                 /\ ExternalCalls = << >>
                 /\ Returned =>
                      /\ TooShortMessage \in Range(resp.err)
                      /\ LastReported = "failed"
            /\ L >= MinTextLength => TooShortMessage \notin Range(resp.err)

-----------------------------------------------------------------------------
(* C28: when the request's context is cancelled while GenerateTitles runs, the
   call returns an error, makes no GetEmbedding or Search call after the
   cancellation, leaves the resume's status at something else than
   "processing", and saves no recommendation. *)
CancelledRequestAborts ==
    (pc = "done" /\ ctxDone) =>
        /\ resp.err # NoError
        /\ \A i \in (ctxDoneAt + 1)..Len(calls) : calls[i].op \notin {"GetEmbedding", "Search"}
        /\ reqId \in DOMAIN resumes => resumes[reqId].status # "processing"
        /\ saved = << >>

-----------------------------------------------------------------------------
(* The two rerankers called on their own: TitleService.diversityRanking and
   the test server's selectDiverseCombinations *)

MaxRerankLen == 4   \* entries in the list given to a reranker
MaxTopK == 3        \* largest topK given to a reranker

TestServerRelevanceWeight == 7   \* candidate["similarity"] * 0.7   (tenths)
TestServerDiversityWeight == 3   \* calculateDiversityScore(..) * 0.3   (tenths)

\* the Jaccard similarity of calculateDiversityScore, times Scale; the
\* arguments are the strings.Fields of the two phrases
JaccardOfWords(candidateWords, selectedWords) ==
    LET candidateSet == Range(candidateWords)
        intersection == Cardinality({ i \in 1..Len(selectedWords) :
                                        selectedWords[i] \in candidateSet })
        union == Len(candidateWords) + Len(selectedWords) - intersection
    IN  IF union > 0 THEN (intersection * Scale) \div union ELSE 0

RECURSIVE MinJaccard(_, _, _, _)
MinJaccard(candidate, sel, i, minSimilarity) ==
    IF i > Len(sel) THEN minSimilarity
    ELSE LET jaccardSim == JaccardOfWords(candidate.phrase, sel[i].phrase)
         IN  MinJaccard(candidate, sel, i + 1,
                        IF jaccardSim < minSimilarity THEN jaccardSim ELSE minSimilarity)

\* DynamicCombinationGenerator.calculateDiversityScore, times Scale
calculateDiversityScore(candidate, sel) ==
    IF Len(sel) = 0 THEN Scale
    ELSE Scale - MinJaccard(candidate, sel, 1, Scale)

RECURSIVE BestDiverseIdx(_, _, _, _, _)
\* the inner loop of selectDiverseCombinations over remaining[lo..hi], entered
\* with best = [idx, score]; the range is walked left half first
BestDiverseIdx(remaining, sel, lo, hi, best) ==
    IF lo > hi THEN best
    ELSE IF lo = hi
    THEN LET totalScore == remaining[lo].similarity * TestServerRelevanceWeight
                           + calculateDiversityScore(remaining[lo], sel) * TestServerDiversityWeight
         IN  IF totalScore > best.score THEN [idx |-> lo, score |-> totalScore] ELSE best
    ELSE LET mid == (lo + hi) \div 2
             left == BestDiverseIdx(remaining, sel, lo, mid, best)
         IN  IF left.idx >= 1    \* the left half is finished first
             THEN BestDiverseIdx(remaining, sel, mid + 1, hi, left)
             ELSE left

RECURSIVE SelectDiverseLoop(_, _, _)
\* the outer loop of selectDiverseCombinations
SelectDiverseLoop(sel, remaining, topK) ==
    IF Len(sel) < topK /\ Len(remaining) > 0
    THEN LET b == BestDiverseIdx(remaining, sel, 1, Len(remaining),
                                 [idx |-> 1, score |-> (0 - 1) * Scale * WeightUnit]).idx
         IN  SelectDiverseLoop(Append(sel, remaining[b]), RemoveAt(remaining, b), topK)
    ELSE sel

\* DynamicCombinationGenerator.selectDiverseCombinations
selectDiverseCombinations(similarities, topK) ==
    IF Len(similarities) <= topK
    THEN similarities
    ELSE SelectDiverseLoop(<< similarities[1] >>, Tail(similarities), topK)

\* the map entries {"phrase", "similarity"} of the test server
SimilarityEntries == [phrase : SearchPhrases, similarity : SearchScores]

\* diversityRanking(rrResults, rrTopK)
CallDiversityRanking ==
    /\ rrPc = "called"
    /\ rrWhich = "coordinator"
    /\ rrOut' = diversityRanking(rrResults, rrTopK)
    /\ rrPc' = "done"
    /\ UNCHANGED << rrWhich, rrResults, rrTopK, notRerankVars >>

\* selectDiverseCombinations(rrResults, rrTopK); rrOut keeps the phrases
CallSelectDiverseCombinations ==
    /\ rrPc = "called"
    /\ rrWhich = "testserver"
    /\ rrOut' = LET finalResults == selectDiverseCombinations(rrResults, rrTopK)
                IN  [i \in 1..Len(finalResults) |-> finalResults[i].phrase]
    /\ rrPc' = "done"
    /\ UNCHANGED << rrWhich, rrResults, rrTopK, notRerankVars >>

\* a reranker is called with a list in any order and a topK >= 0
InitRerank ==
    /\ resumes = << >>
    /\ TitleIdle
    /\ IntakeIdle
    /\ SimilarityIdle
    /\ FaissIdle
    /\ ClientIdle
    /\ rrWhich \in {"coordinator", "testserver"}
    /\ rrResults \in IF rrWhich = "coordinator"
                     THEN SeqsUpTo(SearchHits, MaxRerankLen)
                     ELSE SeqsUpTo(SimilarityEntries, MaxRerankLen)
    /\ rrTopK \in 0..MaxTopK
    /\ rrOut = << >>
    /\ rrPc = "called"

NextRerank == CallDiversityRanking \/ CallSelectDiverseCombinations

SpecRerank == InitRerank /\ [][NextRerank]_vars

\* the relevance of the i-th entry of the list given to the reranker
RerankRelevance(i) ==
    IF rrWhich = "coordinator" THEN rrResults[i].score ELSE rrResults[i].similarity

(* C11: a reranker called with a list L and a topK >= 0 returns min(topK, |L|)
   phrases, none twice, all of them phrases of L, the first being a phrase of
   highest relevance in L, in whichever order L is given. *)
RerankerContract ==
    rrPc = "done" =>
        /\ Len(rrOut) = Min(rrTopK, Len(rrResults))
        /\ Distinct(rrOut)
        /\ \A k \in 1..Len(rrOut) : \E i \in 1..Len(rrResults) : rrResults[i].phrase = rrOut[k]
        /\ rrOut # << >> =>
             \E i \in 1..Len(rrResults) :
                /\ rrResults[i].phrase = rrOut[1]
                /\ \A j \in 1..Len(rrResults) : RerankRelevance(i) >= RerankRelevance(j)

\* the list given to diversityRanking, every entry tagged with its place in it
RankedResults ==
    [i \in 1..Len(rrResults) |->
       [phrase |-> rrResults[i].phrase, score |-> rrResults[i].score, rank |-> i]]

\* the entries the selection loop of diversityRanking appends, in order
SelectionTrace ==
    SelectLoop(<< RankedResults[1] >>, Tail(RankedResults), rrTopK)

\* the largest similarity of a candidate to an entry already selected
MostSimilarSelected(c, S) ==
    CHOOSE m \in { calculateStringSimilarity(c.phrase, S[i].phrase) : i \in 1..Len(S) } :
        \A i \in 1..Len(S) : calculateStringSimilarity(c.phrase, S[i].phrase) <= m

\* 0.7 * rel(c) - 0.3 * max over s in S of sim(c, s), in units of Scale / 10
MMRScore(c, S) == 7 * c.score - 3 * MostSimilarSelected(c, S)

(* C21: at every selection step of diversityRanking after the first, the entry
   moved to the selection is the remaining candidate of largest
   0.7 * rel - 0.3 * (similarity to the most similar selected entry), and among
   candidates of equal value the one of best original rank. *)
MMRStepRule ==
    (rrPc = "done" /\ rrWhich = "coordinator" /\ Len(rrResults) > rrTopK) =>
        \A k \in 2..Len(SelectionTrace) :
            LET S == SubSeq(SelectionTrace, 1, k - 1)
                picked == SelectionTrace[k]
                remaining == { c \in Range(RankedResults) :
                                 \A i \in 1..Len(S) : S[i].rank # c.rank }
            IN  /\ picked \in remaining
                /\ \A c \in remaining :
                      \/ MMRScore(picked, S) > MMRScore(c, S)
                      \/ /\ MMRScore(picked, S) = MMRScore(c, S)
                         /\ picked.rank <= c.rank

-----------------------------------------------------------------------------
(* calculateStringSimilarity on strings given character by character *)

MaxChars == 3   \* characters in a string given to calculateStringSimilarity

\* two letters and the separators the tokenizer knows
Letters == {"x", "y"}

Separators == {" ", "\t"}

Strings == SeqsUpTo(Letters \cup Separators, MaxChars)

RECURSIVE TokenizeFrom(_, _, _, _)
\* the loop of tokenize: i the position, current the token being read
TokenizeFrom(str, i, current, tokens) ==
    IF i > Len(str)
    THEN IF Len(current) > 0 THEN Append(tokens, current) ELSE tokens
    ELSE IF str[i] \in Separators
    THEN IF Len(current) > 0
         THEN TokenizeFrom(str, i + 1, << >>, Append(tokens, current))
         ELSE TokenizeFrom(str, i + 1, current, tokens)
    ELSE TokenizeFrom(str, i + 1, Append(current, str[i]), tokens)

\* tokenize of calculateStringSimilarity
tokenize(str) == TokenizeFrom(str, 1, << >>, << >>)

\* TitleService.calculateStringSimilarity on strings, times Scale
StringSimilarity(a, b) ==
    IF a = b THEN Scale ELSE TokenSimilarity(tokenize(a), tokenize(b))

CallStringSimilarity ==
    /\ simPc = "called"
    /\ simOut' = StringSimilarity(simA, simB)
    /\ simPc' = "done"
    /\ UNCHANGED << simA, simB, notSimilarityVars >>

InitSimilarity ==
    /\ resumes = << >>
    /\ TitleIdle
    /\ IntakeIdle
    /\ RerankIdle
    /\ FaissIdle
    /\ ClientIdle
    /\ simA \in Strings
    /\ simB \in Strings
    /\ simOut = 0
    /\ simPc = "called"

NextSimilarity == CallStringSimilarity

SpecSimilarity == InitSimilarity /\ [][NextSimilarity]_vars

\* the token sets of the two arguments
TokensA == Range(tokenize(simA))

TokensB == Range(tokenize(simB))

SameFirstToken ==
    /\ tokenize(simA) # << >>
    /\ tokenize(simB) # << >>
    /\ tokenize(simA)[1] = tokenize(simB)[1]

\* simOut is the Jaccard index |A n B| / |A u B| of the token sets
IsJaccard(v) ==
    v * Cardinality(TokensA \cup TokensB) = Cardinality(TokensA \cap TokensB) * Scale

\* the Jaccard index of the token sets is at least 0.6
JaccardAtLeastFirstTokenSimilarity ==
    Cardinality(TokensA \cap TokensB) * Scale
        >= FirstTokenSimilarity * Cardinality(TokensA \cup TokensB)

\* what C12 says apart from the value for strings without a common token
SimilarityCommonLaws ==
    /\ simOut = StringSimilarity(simB, simA)
    /\ 0 <= simOut /\ simOut <= Scale
    /\ simA = simB => simOut = Scale
    /\ (simA # simB /\ ~SameFirstToken /\ TokensA \cup TokensB # {}) => IsJaccard(simOut)
    /\ (simA # simB /\ SameFirstToken) =>
         IF JaccardAtLeastFirstTokenSimilarity
         THEN IsJaccard(simOut)
         ELSE simOut = FirstTokenSimilarity

(* C12 as stated: the similarity is symmetric, lies in [0, 1], is 1 for
   identical strings, 0 for strings with no common token, the Jaccard index of
   the token sets when the first tokens differ, and max(Jaccard, 0.6) when
   both strings have tokens and the same first token. *)
SimilarityLawsAsStated ==
    simPc = "done" =>
        /\ SimilarityCommonLaws
        /\ TokensA \cap TokensB = {} => simOut = 0

(* C12 amended: as stated, except that the value 0 for strings with no common
   token holds for two different strings; identical strings give 1 also when
   they hold no token at all (the empty string, or separators only). *)
SimilarityLaws ==
    simPc = "done" =>
        /\ SimilarityCommonLaws
        /\ (simA # simB /\ TokensA \cap TokensB = {}) => simOut = 0

SimilarityLawsWitness ==
    /\ simPc = "done"
    /\ simA # simB
    /\ SameFirstToken
    /\ simOut = FirstTokenSimilarity
    /\ ~IsJaccard(simOut)

-----------------------------------------------------------------------------
(* The vector index FaissDB.  A float32 is kept as an exact fraction: a vector
   is [num, den], the components num[i] / den; a score is [num, den].  The
   directory of the index exists and can be read. *)

Dimension == 2     \* cfg.Dimension
MaxBatch == 2      \* records in one AddVectors call, ids in one Delete call
MaxOps == 2        \* calls made on the index after Initialize
MaxSearchK == 3    \* largest topK given to Search

VectorIds == {"v1", "v2"}

GoodVectors == { << 1, 0 >>, << 1, 1 >> }

\* a vector of another dimension than cfg.Dimension
BadVectors == { << 1 >> }

\* a nil []float32
NilVector == [num |-> << >>, den |-> 1]

NilMetadata == [kind |-> "nil", phrase |-> ""]

\* Metadata a caller passes: {"phrase": "p1"}, {"phrase": 5}
Metadatas == { [kind |-> "string", phrase |-> "p1"],
               [kind |-> "int", phrase |-> "5"] }

\* VectorRecord values a caller passes
InputRecords == [id : VectorIds, vector : GoodVectors \cup BadVectors, metadata : Metadatas]

Batches == SeqsUpTo(InputRecords, MaxBatch)

IdLists == SeqsUpTo(VectorIds, MaxBatch)

\* the orders in which range over a map can visit the keys in S
Orders(S) == { o \in [1..Cardinality(S) -> S] : Range(o) = S }

RECURSIVE SumSquares(_)
SumSquares(v) == IF v = << >> THEN 0 ELSE Head(v) * Head(v) + SumSquares(Tail(v))

\* FaissDB.normalizeVector of a vector of whole numbers: every component is
\* multiplied by 1.0 / (norm * norm), norm being the sum of the squares
normalizeVector(vector) ==
    LET norm == SumSquares(vector)
    IN  IF norm = 0
        THEN [num |-> vector, den |-> 1]
        ELSE [num |-> vector, den |-> norm * norm]

RECURSIVE DotFrom(_, _, _)
DotFrom(a, b, i) == IF i > Len(a) THEN 0 ELSE a[i] * b[i] + DotFrom(a, b, i + 1)

\* FaissDB.cosineSimilarity: the loop runs over the indices of a
cosineSimilarity(a, b) == [num |-> DotFrom(a.num, b.num, 1), den |-> a.den * b.den]

\* x > y for two fractions with positive denominators
ScoreGreater(x, y) == x.num * y.den > y.num * x.den

\* f.vectors[id] = record
Put(vecs, id, record) ==
    [k \in DOMAIN vecs \cup {id} |-> IF k = id THEN record ELSE vecs[k]]

\* delete(f.vectors, id)
Remove(vecs, id) == [k \in DOMAIN vecs \ {id} |-> vecs[k]]

\* the phrase Search reports for a record
PhraseOf(record) ==
    IF record.metadata.kind = "string" THEN record.metadata.phrase ELSE record.id

\* GetStats().TotalVectors
TotalVectors(vecs) == Cardinality(DOMAIN vecs)

\* HealthCheck: f.vectors == nil is the one failure (the directory exists)
HealthCheck(isNil) == IF isNil THEN "not initialized" ELSE "nil"

\* json.Marshal / json.Unmarshal of the Metadata map
MarshalMetadata(m) ==
    CASE m.kind = "nil" -> [kind |-> "null", phrase |-> ""]
      [] m.kind = "string" -> [kind |-> "string", phrase |-> m.phrase]
      [] OTHER -> [kind |-> "number", phrase |-> m.phrase]

UnmarshalMetadata(j) ==
    CASE j.kind = "null" -> NilMetadata
      [] j.kind = "string" -> [kind |-> "string", phrase |-> j.phrase]
      [] OTHER -> [kind |-> "float64", phrase |-> j.phrase]

\* json.Marshal of a VectorRecord with its metadata left out
MarshalRecord_OmitMetadata(r) ==
    [id |-> r.id,
     vector |-> IF r.vector.num = << >>
                THEN [type |-> "null", value |-> NilVector]
                ELSE [type |-> "array", value |-> r.vector],
     metadata |-> [kind |-> "null", phrase |-> ""]]

\* json.Marshal of a VectorRecord {"id", "vector", "metadata"}
MarshalRecord(r) ==
    [id |-> r.id,
     vector |-> IF r.vector.num = << >>
                THEN [type |-> "null", value |-> NilVector]
                ELSE [type |-> "array", value |-> r.vector],
     metadata |-> MarshalMetadata(r.metadata)]

\* json.Unmarshal into a VectorRecord: a field of the wrong type is skipped
UnmarshalRecord(j) ==
    [id |-> j.id,
     vector |-> IF j.vector.type = "array" THEN j.vector.value ELSE NilVector,
     metadata |-> UnmarshalMetadata(j.metadata)]

Mistyped(j) == j.vector.type = "string"

\* json.Marshal(f.vectors): a nil map is written as null
MarshalIndex(vecs, isNil) ==
    IF isNil
    THEN [kind |-> "null", data |-> << >>]
    ELSE [kind |-> "json", data |-> [k \in DOMAIN vecs |-> MarshalRecord(vecs[k])]]

\* FaissDB.saveIndex: (file afterwards, error)
saveIndex(vecs, isNil, writeOk, file) ==
    IF writeOk
    THEN [file |-> MarshalIndex(vecs, isNil), err |-> "nil"]
    ELSE [file |-> file, err |-> "save"]

\* what Initialize finds under indexPath
FileKind(file) ==
    IF file.kind # "json" THEN file.kind
    ELSE IF \E k \in DOMAIN file.data : Mistyped(file.data[k]) THEN "mistyped"
    ELSE "snapshot"

\* FaissDB.loadIndex into the map made by NewFaissDB: (f.vectors, error)
loadIndex(file, vecs, isNil) ==
    CASE file.kind = "missing" -> [vectors |-> vecs, nil |-> isNil, err |-> "read"]
      [] file.kind = "garbage" -> [vectors |-> vecs, nil |-> isNil, err |-> "syntax"]
      [] file.kind = "array" -> [vectors |-> vecs, nil |-> isNil, err |-> "type"]
      [] file.kind = "null" -> [vectors |-> << >>, nil |-> TRUE, err |-> "nil"]
      [] OTHER ->
           [vectors |-> [k \in DOMAIN vecs \cup DOMAIN file.data |->
                           IF k \in DOMAIN file.data
                           THEN UnmarshalRecord(file.data[k])
                           ELSE vecs[k]],
            nil |-> FALSE,
            err |-> IF FileKind(file) = "mistyped" THEN "type" ELSE "nil"]

RECURSIVE AddLoop(_, _, _, _)
\* the loop of AddVectors: (f.vectors when it ends, how it ends)
AddLoop(vecs, isNil, batch, i) ==
    IF i > Len(batch) THEN [vectors |-> vecs, outcome |-> "nil"]
    ELSE IF Len(batch[i].vector) # Dimension THEN [vectors |-> vecs, outcome |-> "dimension"]
    ELSE IF isNil THEN [vectors |-> vecs, outcome |-> "panic"]
    ELSE AddLoop(Put(vecs, batch[i].id,
                     [id |-> batch[i].id,
                      vector |-> normalizeVector(batch[i].vector),
                      metadata |-> batch[i].metadata]),
                 isNil, batch, i + 1)

\* Delete counting the ids it finds without removing them
DeleteLoop_KeepsRecords(vecs, ids, i, deletedCount) ==
    [vectors |-> vecs,
     deletedCount |-> Cardinality({ k \in 1..Len(ids) : ids[k] \in DOMAIN vecs })]

RECURSIVE DeleteLoop(_, _, _, _)
\* the loop of Delete: (f.vectors when it ends, deletedCount)
DeleteLoop(vecs, ids, i, deletedCount) ==
    IF i > Len(ids) THEN [vectors |-> vecs, deletedCount |-> deletedCount]
    ELSE IF ids[i] \in DOMAIN vecs
    THEN DeleteLoop(Remove(vecs, ids[i]), ids, i + 1, deletedCount + 1)
    ELSE DeleteLoop(vecs, ids, i + 1, deletedCount)

RECURSIVE InsertByScore(_, _)
\* the place of e among results already in descending score order
InsertByScore(e, sorted) ==
    IF sorted = << >> THEN << e >>
    ELSE IF ScoreGreater(e.score, Head(sorted).score) THEN << e >> \o sorted
    ELSE << Head(sorted) >> \o InsertByScore(e, Tail(sorted))

\* Search without the sort
SortByScore_Unsorted(sims) == sims

RECURSIVE SortByScore(_)
\* sort.Slice(similarities, Score descending)
SortByScore(sims) ==
    IF sims = << >> THEN << >>
    ELSE InsertByScore(sims[Len(sims)], SortByScore(SubSeq(sims, 1, Len(sims) - 1)))

\* FaissDB.Search, the map being visited in the given order: an error for a
\* query of the wrong dimension, a panic (index out of range) when a stored
\* vector is shorter than the query, else the first topK of the sorted results
SearchIndex(vecs, query, topK, order) ==
    IF Len(query) # Dimension
    THEN [outcome |-> "dimension", results |-> << >>]
    ELSE IF \E k \in DOMAIN vecs : Len(vecs[k].vector.num) < Len(query)
    THEN [outcome |-> "panic", results |-> << >>]
    ELSE LET normalizedQuery == normalizeVector(query)
             similarities == [i \in 1..Len(order) |->
                                [phrase |-> PhraseOf(vecs[order[i]]),
                                 score |-> cosineSimilarity(normalizedQuery,
                                                            vecs[order[i]].vector),
                                 id |-> order[i]]]
             sorted == SortByScore(similarities)
         IN  [outcome |-> "nil",
              results |-> SubSeq(sorted, 1, Min(topK, Len(sorted)))]

Initialize ==
    /\ fdPc = "new"
    /\ LET loaded == loadIndex(fdFile, fdVectors, fdNil)
       IN  /\ fdVectors' = loaded.vectors
           /\ fdNil' = loaded.nil
    /\ fdLoaded' = FileKind(fdFile)
    /\ fdPc' = "open"
    /\ fdLast' = [op |-> "Initialize", err |-> "nil", valid |-> TRUE, writeOk |-> TRUE]
    /\ fdBefore' = [vectors |-> fdVectors, nil |-> fdNil, file |-> fdFile]
    /\ UNCHANGED << fdGen, fdFile, fdOps, fdSearch, fdClosed, fdAllOk, fdAdded,
                    fdAddTotal, fdAddFresh, fdPair, notFaissVars >>

AddVectors(batch, writeOk) ==
    /\ fdPc = "open"
    /\ fdOps < MaxOps
    /\ LET r == AddLoop(fdVectors, fdNil, batch, 1)
           written == saveIndex(r.vectors, fdNil, writeOk, fdFile)
           err == IF r.outcome # "nil" THEN r.outcome ELSE written.err
       IN  /\ fdVectors' = r.vectors
           /\ fdFile' = IF r.outcome = "nil" THEN written.file ELSE fdFile
           /\ fdLast' = [op |-> "AddVectors", err |-> err,
                         valid |-> \A i \in 1..Len(batch) : Len(batch[i].vector) = Dimension,
                         writeOk |-> writeOk]
           /\ fdAllOk' = (fdAllOk /\ err = "nil")
           /\ IF Len(batch) = 1 /\ err = "nil"
              THEN /\ fdAdded' = [id |-> batch[1].id,
                                  phrase |-> PhraseOf(r.vectors[batch[1].id])]
                   /\ fdAddTotal' = TotalVectors(fdVectors)
                   /\ fdAddFresh' = (batch[1].id \notin DOMAIN fdVectors)
              ELSE /\ fdAdded' = NoRecord
                   /\ fdAddTotal' = 0
                   /\ fdAddFresh' = TRUE
    /\ fdPair' = FALSE
    /\ fdBefore' = [vectors |-> fdVectors, nil |-> fdNil, file |-> fdFile]
    /\ fdOps' = fdOps + 1
    /\ UNCHANGED << fdPc, fdGen, fdNil, fdLoaded, fdSearch, fdClosed, notFaissVars >>

Update(id, vector, metadata, writeOk) ==
    /\ fdPc = "open"
    /\ fdOps < MaxOps
    /\ LET outcome == IF Len(vector) # Dimension THEN "dimension"
                      ELSE IF fdNil THEN "panic"
                      ELSE "nil"
           vecs == IF outcome = "nil"
                   THEN Put(fdVectors, id, [id |-> id,
                                            vector |-> normalizeVector(vector),
                                            metadata |-> metadata])
                   ELSE fdVectors
           written == saveIndex(vecs, fdNil, writeOk, fdFile)
           err == IF outcome # "nil" THEN outcome ELSE written.err
       IN  /\ fdVectors' = vecs
           /\ fdFile' = IF outcome = "nil" THEN written.file ELSE fdFile
           /\ fdLast' = [op |-> "Update", err |-> err,
                         valid |-> Len(vector) = Dimension, writeOk |-> writeOk]
           /\ fdAllOk' = (fdAllOk /\ err = "nil")
    /\ fdAdded' = NoRecord
    /\ fdAddTotal' = 0
    /\ fdAddFresh' = TRUE
    /\ fdPair' = FALSE
    /\ fdBefore' = [vectors |-> fdVectors, nil |-> fdNil, file |-> fdFile]
    /\ fdOps' = fdOps + 1
    /\ UNCHANGED << fdPc, fdGen, fdNil, fdLoaded, fdSearch, fdClosed, notFaissVars >>

Delete(ids, writeOk) ==
    /\ fdPc = "open"
    /\ fdOps < MaxOps
    /\ LET r == DeleteLoop(fdVectors, ids, 1, 0)
           written == IF r.deletedCount > 0
                    THEN saveIndex(r.vectors, fdNil, writeOk, fdFile)
                    ELSE [file |-> fdFile, err |-> "nil"]
       IN  /\ fdVectors' = r.vectors
           /\ fdFile' = written.file
           /\ fdLast' = [op |-> "Delete", err |-> written.err, valid |-> TRUE,
                         writeOk |-> writeOk]
           /\ fdAllOk' = (fdAllOk /\ written.err = "nil")
           /\ fdPair' = (fdAdded # NoRecord /\ ids = << fdAdded.id >> /\ written.err = "nil")
    /\ fdAdded' = IF fdPair' THEN fdAdded ELSE NoRecord
    /\ fdAddTotal' = IF fdPair' THEN fdAddTotal ELSE 0
    /\ fdAddFresh' = IF fdPair' THEN fdAddFresh ELSE TRUE
    /\ fdBefore' = [vectors |-> fdVectors, nil |-> fdNil, file |-> fdFile]
    /\ fdOps' = fdOps + 1
    /\ UNCHANGED << fdPc, fdGen, fdNil, fdLoaded, fdSearch, fdClosed, notFaissVars >>

Search(query, topK, order) ==
    /\ fdPc = "open"
    /\ fdOps < MaxOps
    /\ LET r == SearchIndex(fdVectors, query, topK, order)
       IN  /\ fdSearch' = [query |-> query, topK |-> topK,
                           outcome |-> r.outcome, results |-> r.results]
           /\ fdLast' = [op |-> "Search", err |-> r.outcome, valid |-> Len(query) = Dimension,
                         writeOk |-> TRUE]
    /\ fdBefore' = [vectors |-> fdVectors, nil |-> fdNil, file |-> fdFile]
    /\ fdOps' = fdOps + 1
    /\ UNCHANGED << fdPc, fdGen, fdVectors, fdNil, fdFile, fdLoaded, fdClosed, fdAllOk,
                    fdAdded, fdAddTotal, fdAddFresh, fdPair, notFaissVars >>

\* Close: the error of saveIndex is logged, nil is returned
Close(writeOk) ==
    /\ fdPc = "open"
    /\ fdFile' = saveIndex(fdVectors, fdNil, writeOk, fdFile).file
    /\ fdPc' = "closed"
    /\ fdClosed' = IF fdGen = 1 THEN [vectors |-> fdVectors, nil |-> fdNil] ELSE fdClosed
    /\ fdLast' = [op |-> "Close", err |-> "nil", valid |-> TRUE, writeOk |-> writeOk]
    /\ fdBefore' = [vectors |-> fdVectors, nil |-> fdNil, file |-> fdFile]
    /\ UNCHANGED << fdGen, fdVectors, fdNil, fdLoaded, fdOps, fdSearch, fdAllOk, fdAdded,
                    fdAddTotal, fdAddFresh, fdPair, notFaissVars >>

\* NewFaissDB on the same directory, once the first instance is closed
NewFaissDB ==
    /\ fdPc = "closed"
    /\ fdGen = 1
    /\ fdGen' = 2
    /\ fdPc' = "new"
    /\ fdVectors' = << >>
    /\ fdNil' = FALSE
    /\ fdLast' = NoCall
    /\ fdBefore' = [vectors |-> << >>, nil |-> FALSE, file |-> fdFile]
    /\ fdAdded' = NoRecord
    /\ fdAddTotal' = 0
    /\ fdAddFresh' = TRUE
    /\ fdPair' = FALSE
    /\ UNCHANGED << fdFile, fdLoaded, fdOps, fdSearch, fdClosed, fdAllOk, notFaissVars >>

\* a snapshot record as saveIndex writes it, and one whose vector is a string
GoodJson == MarshalRecord([id |-> "v1", vector |-> normalizeVector(<< 1, 0 >>),
                           metadata |-> [kind |-> "string", phrase |-> "p1"]])

\* a snapshot record written by an instance configured with dimension 1
OtherDimensionJson == MarshalRecord([id |-> "v1", vector |-> normalizeVector(<< 1 >>),
                                     metadata |-> [kind |-> "string", phrase |-> "p1"]])

MistypedJson(id) == [id |-> id, vector |-> [type |-> "string", value |-> NilVector],
                     metadata |-> [kind |-> "string", phrase |-> "p2"]]

\* vectors.json when the first instance starts: missing, not JSON, null, a JSON
\* array, or an object of records, some with a wrongly typed vector or a vector
\* of another dimension
InitialFiles ==
    { [kind |-> k, data |-> << >>] : k \in {"missing", "garbage", "null", "array", "json"} }
    \cup { [kind |-> "json", data |-> [k \in {"v1"} |-> GoodJson]],
           [kind |-> "json", data |-> [k \in {"v1"} |-> OtherDimensionJson]],
           [kind |-> "json", data |-> [k \in {"v2"} |-> MistypedJson("v2")]],
           [kind |-> "json", data |-> [k \in {"v1", "v2"} |->
                                         IF k = "v1" THEN GoodJson ELSE MistypedJson("v2")]] }

InitFaiss ==
    /\ resumes = << >>
    /\ TitleIdle
    /\ IntakeIdle
    /\ RerankIdle
    /\ SimilarityIdle
    /\ ClientIdle
    /\ fdPc = "new"
    /\ fdGen = 1
    /\ fdVectors = << >>
    /\ fdNil = FALSE
    /\ fdFile \in InitialFiles
    /\ fdLoaded = NoResponse
    /\ fdOps = 0
    /\ fdLast = NoCall
    /\ fdBefore = [vectors |-> << >>, nil |-> FALSE, file |-> NoFile]
    /\ fdSearch = NoSearchCall
    /\ fdClosed = NoIndex
    /\ fdAllOk = TRUE
    /\ fdAdded = NoRecord
    /\ fdAddTotal = 0
    /\ fdAddFresh = TRUE
    /\ fdPair = FALSE

NextFaiss ==
    \/ Initialize
    \/ \E batch \in Batches, writeOk \in BOOLEAN : AddVectors(batch, writeOk)
    \/ \E id \in VectorIds, vector \in GoodVectors \cup BadVectors, metadata \in Metadatas,
          writeOk \in BOOLEAN : Update(id, vector, metadata, writeOk)
    \/ \E ids \in IdLists, writeOk \in BOOLEAN : Delete(ids, writeOk)
    \/ \E query \in GoodVectors \cup BadVectors, topK \in 0..MaxSearchK,
          order \in Orders(DOMAIN fdVectors) : Search(query, topK, order)
    \/ \E writeOk \in BOOLEAN : Close(writeOk)
    \/ NewFaissDB

SpecFaiss == InitFaiss /\ [][NextFaiss]_vars

\* the raw inner product of a query with a stored vector
RawDot(query, stored) == [num |-> DotFrom(query, stored.num, 1), den |-> stored.den]

\* every record of the index has a vector of dimension cfg.Dimension
IndexWellFormed == \A k \in DOMAIN fdVectors : Len(fdVectors[k].vector.num) = Dimension

(* C13: an AddVectors call that returns the dimension error leaves f.vectors
   and the snapshot file exactly as they were before the call. *)
RejectedBatchLeavesIndex ==
    (fdLast.op = "AddVectors" /\ fdLast.err = "dimension") =>
        /\ fdVectors = fdBefore.vectors
        /\ TotalVectors(fdVectors) = TotalVectors(fdBefore.vectors)
        /\ fdFile = fdBefore.file

(* C14: Search with a query of dimension D, on an index of n records of
   dimension D, returns min(topK, n) results of n different records in
   non-increasing score order, and no record left out has a strictly higher
   inner product with the query than a record returned. *)
SearchReturnsKBest ==
    (fdLast.op = "Search" /\ Len(fdSearch.query) = Dimension /\ IndexWellFormed) =>
        LET res == fdSearch.results
            returned == { res[i].id : i \in 1..Len(res) }
        IN  /\ fdSearch.outcome = "nil"
            /\ Len(res) = Min(fdSearch.topK, TotalVectors(fdVectors))
            /\ Cardinality(returned) = Len(res)
            /\ returned \subseteq DOMAIN fdVectors
            /\ \A i \in 1..Len(res) : res[i].phrase = PhraseOf(fdVectors[res[i].id])
            /\ \A i \in 1..(Len(res) - 1) : ~ScoreGreater(res[i + 1].score, res[i].score)
            /\ \A out \in DOMAIN fdVectors \ returned : \A in \in returned :
                   ~ScoreGreater(RawDot(fdSearch.query, fdVectors[out].vector),
                                 RawDot(fdSearch.query, fdVectors[in].vector))

SearchReturnsKBestWitness ==
    /\ fdLast.op = "Search"
    /\ fdSearch.outcome = "nil"
    /\ TotalVectors(fdVectors) = 2
    /\ fdSearch.topK = 1
    /\ Len(fdSearch.results) = 1
    /\ \E out \in DOMAIN fdVectors :
          /\ out # fdSearch.results[1].id
          /\ ScoreGreater(RawDot(fdSearch.query, fdVectors[fdSearch.results[1].id].vector),
                          RawDot(fdSearch.query, fdVectors[out].vector))

\* the phrases Search can report on the index as it is
SearchablePhrases ==
    { r.phrase : r \in UNION { Range(SearchIndex(fdVectors, q, TotalVectors(fdVectors), o).results) :
                                 q \in GoodVectors, o \in Orders(DOMAIN fdVectors) } }

(* C15 as stated: AddVectors([r]) followed by Delete([r.id]) leaves TotalVectors
   at its value before the AddVectors, and no Search result carries r's
   phrase. *)
AddDeleteLaw ==
    fdPair =>
        /\ TotalVectors(fdVectors) = fdAddTotal
        /\ fdAdded.phrase \notin SearchablePhrases

(* C15 amended: AddVectors([r]) followed by Delete([r.id]) leaves TotalVectors
   at its value before the AddVectors when the index held no record with
   r.id, and one below it when it did; afterwards the index holds no record
   with r.id, and r's phrase is reported by Search only for another record
   that carries it. *)
AddDeleteLawFreshId ==
    fdPair =>
        /\ TotalVectors(fdVectors) = IF fdAddFresh THEN fdAddTotal ELSE fdAddTotal - 1
        /\ fdAdded.id \notin DOMAIN fdVectors
        /\ fdAdded.phrase \in SearchablePhrases =>
              \E k \in DOMAIN fdVectors : k # fdAdded.id /\ PhraseOf(fdVectors[k]) = fdAdded.phrase

AddDeleteLawFreshIdWitness ==
    /\ fdPair
    /\ ~fdAddFresh
    /\ TotalVectors(fdVectors) = fdAddTotal - 1

\* two indexes hold the same identifiers, vectors and phrases
SameIndex(a, b) ==
    /\ DOMAIN a = DOMAIN b
    /\ \A k \in DOMAIN a :
          /\ a[k].id = b[k].id
          /\ a[k].vector = b[k].vector
          /\ PhraseOf(a[k]) = PhraseOf(b[k])

(* C16: when every AddVectors, Update and Delete call on the first instance
   returned nil and the instance was closed, a new instance initialized on
   the same directory holds the identifiers, vectors and phrases the first one
   held, and GetStats and Search answer the same on both. *)
PersistenceRoundTrip ==
    (fdGen = 2 /\ fdPc = "open" /\ fdLast.op = "Initialize" /\ fdAllOk) =>
        /\ SameIndex(fdVectors, fdClosed.vectors)
        /\ TotalVectors(fdVectors) = TotalVectors(fdClosed.vectors)
        /\ \A q \in GoodVectors \cup BadVectors, o \in Orders(DOMAIN fdVectors) :
              LET now == SearchIndex(fdVectors, q, MaxSearchK, o)
                  then == SearchIndex(fdClosed.vectors, q, MaxSearchK, o)
              IN  /\ now.outcome = then.outcome
                  /\ Len(now.results) = Len(then.results)
                  /\ \A i \in 1..Len(now.results) :
                        /\ now.results[i].phrase = then.results[i].phrase
                        /\ now.results[i].score = then.results[i].score

PersistenceRoundTripWitness ==
    /\ fdGen = 2
    /\ fdPc = "open"
    /\ fdLast.op = "Initialize"
    /\ fdAllOk
    /\ \E k \in DOMAIN fdClosed.vectors :
          /\ fdClosed.vectors[k].metadata.kind = "int"
          /\ k \in DOMAIN fdVectors
          /\ fdVectors[k].metadata.kind = "float64"

(* C17: Initialize on a directory whose snapshot is missing or malformed
   yields an empty, healthy index: GetStats reports 0 vectors, HealthCheck
   succeeds, and an AddVectors of valid records that follows succeeds (the
   disk taking the write). *)
MalformedSnapshotYieldsEmptyIndex ==
    (fdGen = 1 /\ fdPc = "open"
       /\ fdLoaded \in {"missing", "garbage", "null", "array", "mistyped"}) =>
        /\ fdLast.op = "Initialize" =>
              /\ fdLast.err = "nil"
              /\ TotalVectors(fdVectors) = 0
              /\ HealthCheck(fdNil) = "nil"
        /\ (fdLast.op = "AddVectors" /\ fdLast.valid /\ fdLast.writeOk) => fdLast.err = "nil"

\* the lexicographic order of the identifiers
IdRank == [v1 |-> 1, v2 |-> 2]

ScoreEqual(x, y) == x.num * y.den = y.num * x.den

(* C23: in the list a Search call returns, of two entries with the same score
   the one with the smaller identifier comes first, and a record left out by
   the cut at topK whose score equals that of a returned entry has a larger
   identifier than that entry. *)
SearchTiesByIdentifier ==
    (fdLast.op = "Search" /\ fdSearch.outcome = "nil") =>
        LET results == fdSearch.results
            returned == { results[i].id : i \in 1..Len(results) }
        IN  /\ \A i, j \in 1..Len(results) :
                  (i < j /\ ScoreEqual(results[i].score, results[j].score))
                      => IdRank[results[i].id] < IdRank[results[j].id]
            /\ \A i \in 1..Len(results) : \A k \in DOMAIN fdVectors \ returned :
                  ScoreEqual(results[i].score,
                             cosineSimilarity(normalizeVector(fdSearch.query),
                                              fdVectors[k].vector))
                      => IdRank[results[i].id] < IdRank[k]

(* C30: whenever the index is open, every stored record's vector has exactly
   Dimension components. *)
IndexDimensionInvariant ==
    fdPc = "open" => IndexWellFormed

\* the records the last call put into f.vectors
StoredByLastCall ==
    { k \in DOMAIN fdVectors :
        k \notin DOMAIN fdBefore.vectors \/ fdVectors[k] # fdBefore.vectors[k] }

\* the L2 norm of the vector num / den is 1
UnitNorm(v) == SumSquares(v.num) = v.den * v.den

(* C26: every vector AddVectors or Update stores is the input divided by its
   L2 norm, hence of norm 1 for a non-zero input, and every score Search
   returns lies in [-1, 1]. *)
StoredVectorsNormalized ==
    /\ fdLast.op \in {"AddVectors", "Update"} =>
          \A k \in StoredByLastCall : UnitNorm(fdVectors[k].vector)
    /\ (fdLast.op = "Search" /\ fdSearch.outcome = "nil") =>
          \A i \in 1..Len(fdSearch.results) :
              /\ fdSearch.results[i].score.num <= fdSearch.results[i].score.den
              /\ 0 - fdSearch.results[i].score.num <= fdSearch.results[i].score.den

-----------------------------------------------------------------------------
(* The process stopping inside saveIndex.  os.WriteFile opens vectors.json
   with O_TRUNC and then writes the data: a process that stops on the way
   leaves the previous file (not yet opened), an empty or partly written file
   (neither is JSON), or the complete new file *)

\* how far os.WriteFile got when the process stopped
WriteStages == {"unopened", "truncated", "written"}

InterruptedWrite(file, data, stage) ==
    CASE stage = "unopened" -> file
      [] stage = "truncated" -> [kind |-> "garbage", data |-> << >>]
      [] OTHER -> data

\* AddVectors(batch) reaching saveIndex, the process stopping in os.WriteFile
\* at the given stage
StopInSave(batch, stage) ==
    /\ fdPc = "open"
    /\ fdOps < MaxOps
    /\ LET r == AddLoop(fdVectors, fdNil, batch, 1)
       IN  /\ r.outcome = "nil"
           /\ fdFile' = InterruptedWrite(fdFile, MarshalIndex(r.vectors, fdNil), stage)
           /\ fdVectors' = r.vectors
           /\ fdClosed' = [vectors |-> r.vectors, nil |-> fdNil]
    /\ fdPc' = "closed"
    /\ fdLast' = [op |-> "Stop", err |-> "nil", valid |-> TRUE, writeOk |-> FALSE]
    /\ fdBefore' = [vectors |-> fdVectors, nil |-> fdNil, file |-> fdFile]
    /\ fdAllOk' = FALSE
    /\ fdAdded' = NoRecord
    /\ fdAddTotal' = 0
    /\ fdAddFresh' = TRUE
    /\ fdPair' = FALSE
    /\ fdOps' = fdOps + 1
    /\ UNCHANGED << fdGen, fdNil, fdLoaded, fdSearch, notFaissVars >>

NextStop ==
    \/ Initialize
    \/ \E batch \in Batches : AddVectors(batch, TRUE)
    \/ \E batch \in Batches, stage \in WriteStages : StopInSave(batch, stage)
    \/ NewFaissDB

SpecStop == InitFaiss /\ [][NextStop]_vars

\* the index a new instance holds after Initialize on the given file
LoadedFrom(file) == loadIndex(file, << >>, FALSE).vectors

(* C24: when the process stops during saveIndex, vectors.json is afterwards
   the complete previous snapshot or the complete new one, and the next
   Initialize loads what it would load from one of these two. *)
SnapshotWriteAtomic ==
    fdLast.op = "Stop" =>
        /\ fdFile \in { fdBefore.file, MarshalIndex(fdVectors, fdNil) }
        /\ \/ LoadedFrom(fdFile) = LoadedFrom(fdBefore.file)
           \/ LoadedFrom(fdFile) = LoadedFrom(MarshalIndex(fdVectors, fdNil))

-----------------------------------------------------------------------------
(* MLClient.makeRequest: one call, its retries and its context *)

MaxRetryCount == 3   \* largest c.config.RetryCount

\* how one iteration of the loop can end: NewRequestWithContext fails, Do
\* returns the context's error, Do or ReadAll fail, or a response of one of
\* the status classes arrives ("other" is a 1xx or 3xx status)
IterationOutcomes == {"create error", "context error", "transport error", "read error",
                      "2xx", "4xx", "5xx", "other"}

StatusClasses == {"2xx", "4xx", "5xx", "other"}

\* the iterations in which Do handed a request to the transport
RequestSent(outcome) == outcome \notin {"create error", "context error"}

\* the status tests without the one for 4xx
AfterStatus_RetryClientError(class) ==
    IF class = "2xx" THEN "success" ELSE "retry"

\* the status tests at the end of the loop body
AfterStatus(class) ==
    IF class = "2xx" THEN "success"
    ELSE IF class = "4xx" THEN "client error"
    ELSE "retry"

\* for attempt := 0; attempt < c.config.RetryCount; ...
LoopTest ==
    /\ rqPc = "loop"
    /\ IF rqAttempt < rqRetryCount
       THEN /\ rqPc' = IF rqAttempt > 0 THEN "wait" ELSE "send"
            /\ rqResult' = rqResult
       ELSE /\ rqPc' = "done"
            /\ rqResult' = "max retries"
    /\ UNCHANGED << rqRetryCount, rqAttempt, rqSent, rqCancelled, rqCancelAt, rqOutcomes,
                    rqWaits, rqUnread, rqBodies, notRetryVars >>

\* case <-time.After(time.Duration(attempt) * time.Second)
WaitElapsed ==
    /\ rqPc = "wait"
    /\ rqWaits' = Append(rqWaits, rqAttempt)
    /\ rqPc' = "send"
    /\ UNCHANGED << rqRetryCount, rqAttempt, rqSent, rqCancelled, rqCancelAt, rqResult,
                    rqOutcomes, rqUnread, rqBodies, notRetryVars >>

\* case <-ctx.Done(): return nil, ctx.Err()
WaitCancelled ==
    /\ rqPc = "wait"
    /\ rqCancelled
    /\ rqPc' = "done"
    /\ rqResult' = "cancelled"
    /\ UNCHANGED << rqRetryCount, rqAttempt, rqSent, rqCancelled, rqCancelAt, rqOutcomes,
                    rqWaits, rqUnread, rqBodies, notRetryVars >>

\* the caller cancels ctx while the call runs
CancelContext ==
    /\ rqPc \in {"loop", "wait", "send"}
    /\ ~rqCancelled
    /\ rqCancelled' = TRUE
    /\ rqCancelAt' = IF rqPc = "wait" THEN rqSent ELSE rqCancelAt
    /\ UNCHANGED << rqPc, rqRetryCount, rqAttempt, rqSent, rqResult, rqOutcomes, rqWaits,
                    rqUnread, rqBodies, notRetryVars >>

\* what requestBody holds: "nil" when body == nil, else all of jsonData, a rest
\* of it, or nothing
BufferStates == {"nil", "all", "part", "none"}

\* what can be left unread when the iteration ends: the transport reads the
\* request body from requestBody itself. A response means the body was read
\* to its end; a transport error can come before, while or after it is read.
LeftUnread(unread, outcome) ==
    IF unread = "nil" \/ ~RequestSent(outcome) THEN { unread }
    ELSE IF outcome = "transport error"
    THEN CASE unread = "all" -> {"all", "part", "none"}
           [] unread = "part" -> {"part", "none"}
           [] OTHER -> {"none"}
    ELSE {"none"}

\* the rest of the loop body: build the request on requestBody, send it, read
\* the answer, test the status. With ctx done, Do returns its error before
\* sending. The request carries what requestBody holds when it is built.
Attempt(outcome, left) ==
    /\ rqPc = "send"
    /\ outcome \in IterationOutcomes
    /\ left \in LeftUnread(rqUnread, outcome)
    /\ rqUnread' = left
    /\ rqBodies' = IF RequestSent(outcome) THEN Append(rqBodies, rqUnread) ELSE rqBodies
    /\ rqCancelled => outcome \in {"create error", "context error"}
    /\ ~rqCancelled => outcome # "context error"
    /\ rqOutcomes' = Append(rqOutcomes, outcome)
    /\ rqSent' = IF RequestSent(outcome) THEN rqSent + 1 ELSE rqSent
    /\ LET after == IF outcome \in StatusClasses THEN AfterStatus(outcome) ELSE "retry"
       IN  IF after = "retry"
           THEN /\ rqAttempt' = rqAttempt + 1
                /\ rqPc' = "loop"
                /\ rqResult' = rqResult
           ELSE /\ rqAttempt' = rqAttempt
                /\ rqPc' = "done"
                /\ rqResult' = after
    /\ UNCHANGED << rqRetryCount, rqCancelled, rqCancelAt, rqWaits, notRetryVars >>

\* the call has marshalled its body, if it has one, and enters the loop
InitRetry ==
    /\ resumes = << >>
    /\ TitleIdle
    /\ IntakeIdle
    /\ RerankIdle
    /\ SimilarityIdle
    /\ FaissIdle
    /\ GeneratorIdle
    /\ RunsIdle
    /\ ExtraIdle
    /\ rqPc = "loop"
    /\ rqRetryCount \in 0..MaxRetryCount
    /\ rqAttempt = 0
    /\ rqSent = 0
    /\ rqCancelled = FALSE
    /\ rqCancelAt = -1
    /\ rqResult = NoResponse
    /\ rqOutcomes = << >>
    /\ rqWaits = << >>
    /\ rqUnread \in {"nil", "all"}
    /\ rqBodies = << >>

NextRetry ==
    \/ LoopTest
    \/ WaitElapsed
    \/ WaitCancelled
    \/ CancelContext
    \/ \E outcome \in IterationOutcomes, left \in BufferStates : Attempt(outcome, left)

\* the timer of a wait fires, and Do returns (the client has a timeout)
SpecRetry ==
    /\ InitRetry
    /\ [][NextRetry]_vars
    /\ WF_vars(LoopTest)
    /\ WF_vars(WaitElapsed \/ WaitCancelled)
    /\ WF_vars(\E outcome \in IterationOutcomes, left \in BufferStates : Attempt(outcome, left))

\* the outcomes the claim calls 5xx responses and transport errors
Retryable == {"5xx", "transport error", "read error"}

RetryCallState ==
    /\ rqSent <= rqRetryCount
    /\ \A i \in 1..Len(rqOutcomes) :
          /\ rqOutcomes[i] = "2xx" =>
                (i = Len(rqOutcomes) /\ rqPc = "done" /\ rqResult = "success")
          /\ rqOutcomes[i] = "4xx" =>
                (i = Len(rqOutcomes) /\ rqPc = "done" /\ rqResult = "client error")
          /\ (rqOutcomes[i] \in Retryable /\ i < Len(rqOutcomes)) => i <= Len(rqWaits)
    /\ rqResult = "success" =>
          (Len(rqOutcomes) > 0 /\ rqOutcomes[Len(rqOutcomes)] = "2xx")
    /\ \A i \in 1..Len(rqWaits) :
          /\ rqWaits[i] > 0
          /\ i > 1 => rqWaits[i] > rqWaits[i - 1]
    /\ (rqPc = "done" /\ ~rqCancelled
          /\ \A i \in 1..Len(rqOutcomes) : rqOutcomes[i] \in Retryable) =>
             (rqSent = rqRetryCount /\ rqResult = "max retries")
    /\ rqCancelAt # -1 => rqSent = rqCancelAt

(* C18: one makeRequest call with retry count R sends at most R requests; a
   2xx response ends it at once with success; a 4xx response ends it with an
   error and nothing is sent afterwards; 5xx responses and transport errors
   are retried, each retry after a wait longer than the one before, until R
   requests have been made, and then the call returns an error; once ctx is
   cancelled during a wait no further request is sent; and the call ends. *)
RetryPolicy ==
    /\ []RetryCallState
    /\ [][rqPc = "done" => UNCHANGED retryVars]_vars
    /\ <>(rqPc = "done")

RetryPolicyWitness ==
    /\ rqPc = "done"
    /\ rqResult = "max retries"
    /\ rqRetryCount >= 2
    /\ rqSent = rqRetryCount
    /\ Len(rqWaits) = rqRetryCount - 1
    /\ \E i \in 1..Len(rqOutcomes) : rqOutcomes[i] = "5xx"
    /\ \E i \in 1..Len(rqOutcomes) : rqOutcomes[i] = "transport error"

(* C29: every request one makeRequest call hands to the transport carries the
   whole serialized body, the first attempt and every retry alike. *)
RetriesCarrySameBody ==
    rqUnread # "nil" =>
        \A i \in 1..Len(rqBodies) : rqBodies[i] = "all"

-----------------------------------------------------------------------------
(* The test server's DynamicCombinationGenerator: loadWordPools and
   GenerateDynamicCombinations. A string is the sequence of its pieces, a
   piece being a blank or a run of other characters. *)

MaxLines == 2        \* lines in a word file
MaxSeed == 1         \* outcomes of the random source tried for one draw
MaxScored == 2       \* period of the similarities given to the candidates

AdjFilterCount == 20
NounFilterCount == 30
DefaultAdjectiveCount == 35
DefaultNounCount == 40
TopCountTenths == 7   \* int(float64(topK) * 0.7)

\* the lines a word file can hold: words, a word with a blank inside, a word
\* with a blank at its end, an empty line, a comment
FileLines == { << "a" >>, << "b" >>, << "a", " ", "b" >>, << "a", " " >>, << >>, << "#", "a" >> }

WordFiles == { [exists |-> FALSE, lines |-> << >>] }
                 \cup { [exists |-> TRUE, lines |-> l] : l \in SeqsUpTo(FileLines, MaxLines) }

RECURSIVE TrimLineLeft(_)
TrimLineLeft(line) ==
    IF Len(line) > 0 /\ line[1] = " " THEN TrimLineLeft(Tail(line)) ELSE line

RECURSIVE TrimLineRight(_)
TrimLineRight(line) ==
    IF Len(line) > 0 /\ line[Len(line)] = " "
    THEN TrimLineRight(SubSeq(line, 1, Len(line) - 1))
    ELSE line

\* strings.TrimSpace(scanner.Text())
TrimLine(line) == TrimLineRight(TrimLineLeft(line))

RECURSIVE ScanLines(_, _, _)
ScanLines(lines, i, words) ==
    IF i > Len(lines) THEN words
    ELSE LET line == TrimLine(lines[i])
         IN  IF line # << >> /\ line[1] # "#"
             THEN ScanLines(lines, i + 1, Append(words, line))
             ELSE ScanLines(lines, i + 1, words)

\* loadWordPool: nil for a file that cannot be opened
loadWordPool(file) ==
    IF file.exists THEN ScanLines(file.lines, 1, << >>) ELSE << >>

\* the built-in pools: 35 and 40 different words of one piece each
DefaultAdjectives == [i \in 1..DefaultAdjectiveCount |-> << "A" \o ToString(i) >>]

DefaultNouns == [i \in 1..DefaultNounCount |-> << "N" \o ToString(i) >>]

\* fmt.Sprintf("%s %s", adj, noun) for every adjective and every noun
CombinationsOf(relevantAdjectives, relevantNouns) ==
    LET nn == Len(relevantNouns)
    IN  [k \in 1..(Len(relevantAdjectives) * nn) |->
            relevantAdjectives[((k - 1) \div nn) + 1] \o << " " >>
                \o relevantNouns[((k - 1) % nn) + 1]]

\* strings.Fields
Fields(text) == SelectSeq(text, LAMBDA piece : piece # " ")

RECURSIVE ExchangePass(_, _, _, _)
\* the inner loop of sortBySimilarity over j = lo..hi, entered with cur at
\* position i: what ends at position i, and what ends at lo..hi; the range is
\* walked left half first
ExchangePass(cur, similarities, lo, hi) ==
    IF lo > hi THEN [cur |-> cur, passed |-> << >>]
    ELSE IF lo = hi
    THEN IF cur.similarity < similarities[lo].similarity
         THEN [cur |-> similarities[lo], passed |-> << cur >>]
         ELSE [cur |-> cur, passed |-> << similarities[lo] >>]
    ELSE LET mid == (lo + hi) \div 2
             left == ExchangePass(cur, similarities, lo, mid)
             right == ExchangePass(left.cur, similarities, mid + 1, hi)
         IN  IF Len(left.passed) >= 0    \* the left half is finished first
             THEN [cur |-> right.cur, passed |-> left.passed \o right.passed]
             ELSE left

RECURSIVE ExchangePasses(_, _, _)
\* the outer loop of sortBySimilarity for i = lo..hi
ExchangePasses(similarities, lo, hi) ==
    IF lo > hi THEN similarities
    ELSE IF lo = hi
    THEN LET pass == ExchangePass(similarities[lo], similarities, lo + 1, Len(similarities))
         IN  SubSeq(similarities, 1, lo - 1) \o << pass.cur >> \o pass.passed
    ELSE LET mid == (lo + hi) \div 2
             left == ExchangePasses(similarities, lo, mid)
         IN  IF Len(left) >= 0    \* the left half is finished first
             THEN ExchangePasses(left, mid + 1, hi)
             ELSE left

sortBySimilarity(similarities) == ExchangePasses(similarities, 1, Len(similarities) - 1)

\* the words with their scores, as the first loop of filterRelevantWords
\* collects them; the score is kept in the field the sort compares
ScoredWords(words, scores) ==
    [i \in 1..Len(words) |-> [word |-> words[i], similarity |-> scores[i]]]

Swap(list, i, j) ==
    [k \in 1..Len(list) |-> IF k = i THEN list[j] ELSE IF k = j THEN list[i] ELSE list[k]]

RECURSIVE Shuffle(_, _, _)
\* the shuffle of filterRelevantWords from index i (counted from 0) down to 1;
\* draws[i] is the value of dcg.rand.Intn(i + 1)
Shuffle(availableWords, i, draws) ==
    IF i < 1 THEN availableWords
    ELSE Shuffle(Swap(availableWords, i + 1, draws[i] + 1), i - 1, draws)

\* filterRelevantWords on words already scored: the sort by score (the loop
\* of sortBySimilarity), the first topCount words, then the first words of the
\* shuffled rest
filterScoredWords(scored, topK, draws) ==
    IF Len(scored) <= topK THEN [i \in 1..Len(scored) |-> scored[i].word]
    ELSE LET sorted == sortBySimilarity(scored)
             topCount == (topK * TopCountTenths) \div 10
             top == [i \in 1..Min(topCount, Len(sorted)) |-> sorted[i].word]
             remaining == topK - Len(top)
         IN  IF remaining > 0 /\ Len(sorted) > topCount
             THEN LET availableWords == Shuffle([i \in 1..(Len(sorted) - topCount) |->
                                                   sorted[topCount + i].word],
                                                Len(sorted) - topCount - 1, draws)
                  IN  top \o SubSeq(availableWords, 1, Min(remaining, Len(availableWords)))
             ELSE top

\* the scores and the draws dcg.rand gives after the given seed
SeedScores(n, seed) == [i \in 1..n |-> (i + seed) % 3]

SeedDraws(n, seed) == [i \in 1..n |-> seed % (i + 1)]

\* filterRelevantWords. The relevance scores and the shuffle come from dcg.rand
filterRelevantWords(words, topK, seed) ==
    filterScoredWords(ScoredWords(words, SeedScores(Len(words), seed)), topK,
                      SeedDraws(Len(words), seed))

\* the similarities calculateSemanticSimilarity can give
SimilarityLevels == { Scale \div 3, Scale }

\* the two pools after loadWordPools: the words of the file, the built-in
\* pool when there is none
LoadedPools(adjectiveFile, nounFile) ==
    LET fromAdjectives == loadWordPool(adjectiveFile)
        fromNouns == loadWordPool(nounFile)
    IN  [adjectives |-> IF Len(fromAdjectives) = 0 THEN DefaultAdjectives ELSE fromAdjectives,
         nouns |-> IF Len(fromNouns) = 0 THEN DefaultNouns ELSE fromNouns]

\* NewDynamicCombinationGenerator: loadWordPools, on the word files it finds
loadWordPools(adjectiveFile, nounFile) ==
    /\ gnPc = "new"
    /\ gnAdjectives' = LoadedPools(adjectiveFile, nounFile).adjectives
    /\ gnNouns' = LoadedPools(adjectiveFile, nounFile).nouns
    /\ gnPc' = "loaded"
    /\ UNCHANGED << gnTopK, gnPool, gnOut, notGeneratorVars >>

\* steps 1 to 3 of GenerateDynamicCombinations: the filtered lists and the
\* local combinations
CandidatePool(adjectives, nouns, seed) ==
    LET relevantAdjectives == filterRelevantWords(adjectives, AdjFilterCount, seed)
        relevantNouns == filterRelevantWords(nouns, NounFilterCount, seed)
    IN  [relevantAdjectives |-> relevantAdjectives,
         relevantNouns |-> relevantNouns,
         combinations |-> CombinationsOf(relevantAdjectives, relevantNouns)]

\* steps 4 to 6 and the returned map; scoring[k] is the similarity of the
\* candidates k, k + MaxScored, ...
GeneratedOutput(pool, topK, scoring) ==
    LET combinations == pool.combinations
        similarities == [k \in 1..Len(combinations) |->
                            [text |-> combinations[k],
                             phrase |-> Fields(combinations[k]),
                             similarity |-> scoring[((k - 1) % MaxScored) + 1]]]
        sorted == sortBySimilarity(similarities)
        finalResults == selectDiverseCombinations(sorted, topK)
    IN  IF Len(sorted) = Len(combinations)    \* the sort is finished first
        THEN [combinations |-> [i \in 1..Len(finalResults) |-> finalResults[i].text],
              details |-> finalResults,
              total_generated |-> Len(combinations),
              filtered_adjectives |-> Len(pool.relevantAdjectives),
              filtered_nouns |-> Len(pool.relevantNouns)]
        ELSE NoOutput

\* GenerateDynamicCombinations(resumeText, topK), the first call on the generator
GenerateDynamicCombinations(topK, seed, scoring) ==
    /\ gnPc = "loaded"
    /\ gnPool' = CandidatePool(gnAdjectives, gnNouns, seed).combinations
    /\ gnOut' = GeneratedOutput(CandidatePool(gnAdjectives, gnNouns, seed), topK, scoring)
    /\ gnTopK' = topK
    /\ gnPc' = "done"
    /\ UNCHANGED << gnAdjectives, gnNouns, notGeneratorVars >>

InitGenerator ==
    /\ resumes = << >>
    /\ TitleIdle
    /\ IntakeIdle
    /\ RerankIdle
    /\ SimilarityIdle
    /\ FaissIdle
    /\ RetryIdle
    /\ RunsIdle
    /\ ExtraIdle
    /\ gnPc = "new"
    /\ gnAdjectives = << >>
    /\ gnNouns = << >>
    /\ gnTopK = 0
    /\ gnPool = << >>
    /\ gnOut = NoOutput

NextGenerator ==
    \/ \E adjectiveFile \in WordFiles, nounFile \in WordFiles :
          loadWordPools(adjectiveFile, nounFile)
    \/ \E topK \in 0..MaxTopK, seed \in 0..MaxSeed, scoring \in [1..MaxScored -> SimilarityLevels] :
          GenerateDynamicCombinations(topK, seed, scoring)

SpecGenerator == InitGenerator /\ [][NextGenerator]_vars

(* C19: after GenerateDynamicCombinations, whatever the word lists, the pool
   holds no two equal renderings and at most 20 x 30 = 600 of them,
   filtered_adjectives <= 20, filtered_nouns <= 30, total_generated is their
   product, and the returned combinations hold no duplicate and are the
   phrases of details, index by index. *)
GeneratorPoolContract ==
    gnPc = "done" =>
        /\ \A i, j \in 1..Len(gnPool) : i < j => gnPool[i] # gnPool[j]
        /\ Len(gnPool) <= AdjFilterCount * NounFilterCount
        /\ gnOut.filtered_adjectives <= AdjFilterCount
        /\ gnOut.filtered_nouns <= NounFilterCount
        /\ gnOut.total_generated = gnOut.filtered_adjectives * gnOut.filtered_nouns
        /\ gnOut.total_generated = Len(gnPool)
        /\ \A i, j \in 1..Len(gnOut.combinations) :
              i < j => gnOut.combinations[i] # gnOut.combinations[j]
        /\ Len(gnOut.combinations) = Len(gnOut.details)
        /\ \A i \in 1..Len(gnOut.combinations) :
              gnOut.combinations[i] = gnOut.details[i].text

-----------------------------------------------------------------------------
(* filterRelevantWords called on its own, with the scores and the draws
   dcg.rand can give *)

MaxWords == 5       \* words in the list given to filterRelevantWords
MaxFilterK == 4     \* largest topK given to filterRelevantWords

WordScores == 0..2

WordNames(n) == [i \in 1..n |-> "w" \o ToString(i)]

\* the values of dcg.rand.Intn(i + 1) for i = 1..MaxWords - 1
DrawLists == { d \in [1..(MaxWords - 1) -> 0..(MaxWords - 1)] :
                 \A i \in 1..(MaxWords - 1) : d[i] <= i }

\* filterRelevantWords(words, keywords, fwTopK)
CallFilterRelevantWords(draws) ==
    /\ fwPc = "called"
    /\ fwOut' = filterScoredWords(fwWords, fwTopK, draws)
    /\ fwPc' = "done"
    /\ UNCHANGED << fwWords, fwTopK, notFilterVars >>

InitFilter ==
    /\ resumes = << >>
    /\ TitleIdle
    /\ IntakeIdle
    /\ RerankIdle
    /\ SimilarityIdle
    /\ FaissIdle
    /\ RetryIdle
    /\ GeneratorIdle
    /\ RunsIdle
    /\ LockIdle
    /\ fwPc = "called"
    /\ \E n \in 0..MaxWords : \E scores \in [1..n -> WordScores] :
          fwWords = ScoredWords(WordNames(n), scores)
    /\ fwTopK \in 0..MaxFilterK
    /\ fwOut = << >>

NextFilter == \E draws \in DrawLists : CallFilterRelevantWords(draws)

SpecFilter == InitFilter /\ [][NextFilter]_vars

\* the score of a word of fwWords
WordScore(word) ==
    LET i == CHOOSE k \in 1..Len(fwWords) : fwWords[k].word = word
    IN  fwWords[i].similarity

\* how many words score at least as much as the given word: its last possible
\* position in a list sorted by descending score
LastSortedPosition(word) ==
    Cardinality({ k \in 1..Len(fwWords) : fwWords[k].similarity >= WordScore(word) })

(* C25: filterRelevantWords(words, K) with |words| > K returns exactly K
   different words; the first floor(0.7 K) are the highest-scored words in
   descending score order; every later entry comes from position K or later
   of the score-sorted list; with |words| <= K all words are returned. *)
SeventyThirtySplit ==
    fwPc = "done" =>
        LET topCount == (fwTopK * 7) \div 10
        IN  IF Len(fwWords) <= fwTopK
            THEN fwOut = [i \in 1..Len(fwWords) |-> fwWords[i].word]
            ELSE /\ Len(fwOut) = fwTopK
                 /\ Distinct(fwOut)
                 /\ \A i \in 1..Len(fwOut) : \E k \in 1..Len(fwWords) : fwWords[k].word = fwOut[i]
                 /\ \A i \in 1..topCount :
                       /\ i > 1 => WordScore(fwOut[i - 1]) >= WordScore(fwOut[i])
                       /\ \A k \in 1..Len(fwWords) :
                             (\A j \in 1..topCount : fwOut[j] # fwWords[k].word)
                                 => WordScore(fwOut[i]) >= fwWords[k].similarity
                 /\ \A i \in (topCount + 1)..Len(fwOut) :
                       LastSortedPosition(fwOut[i]) >= fwTopK

-----------------------------------------------------------------------------
(* The rerankers on a list whose most relevant entries share their modifier:
   the NounFilterCount combinations of one adjective, followed by combinations
   of another adjective *)

MaxOthers == 2     \* entries with another modifier at the end of the list

\* relevance values in [-1, 1], times Scale
RelevanceLevels == { 0 - Scale, 0, Scale \div 2, Scale }

NounName(i) == "n" \o ToString(i)

\* the first `high` combinations of "a1" have relevance top, the others mid;
\* the combinations of "a2" that follow have relevance low < mid
SharedModifierList(high, top, mid, low, otherNouns) ==
    [i \in 1..(NounFilterCount + Len(otherNouns)) |->
       IF i <= NounFilterCount
       THEN [phrase |-> Phrase("a1", NounName(i)),
             relevance |-> IF i <= high THEN top ELSE mid]
       ELSE [phrase |-> Phrase("a2", otherNouns[i - NounFilterCount]),
             relevance |-> low]]

SharedModifierLists ==
    { SharedModifierList(high, top, mid, low, otherNouns) :
        high \in 0..NounFilterCount,
        top \in RelevanceLevels,
        mid \in RelevanceLevels,
        low \in RelevanceLevels,
        otherNouns \in (SeqsUpTo({ NounName(1), NounName(NounFilterCount + 1) }, MaxOthers)
                        \ { << >> }) }

\* the list as the coordinator (Phrase, Score) or the test server
\* ("phrase", "similarity") holds it
EntriesFor(which, list) ==
    [i \in 1..Len(list) |->
       IF which = "coordinator"
       THEN [phrase |-> list[i].phrase, score |-> list[i].relevance]
       ELSE [phrase |-> list[i].phrase, similarity |-> list[i].relevance]]

\* a reranker is called with topK = 3 on a list sorted by descending relevance
InitDiversity ==
    /\ resumes = << >>
    /\ TitleIdle
    /\ IntakeIdle
    /\ SimilarityIdle
    /\ FaissIdle
    /\ ClientIdle
    /\ rrWhich \in {"coordinator", "testserver"}
    /\ \E list \in SharedModifierLists :
          /\ \A i \in 1..(Len(list) - 1) : list[i].relevance >= list[i + 1].relevance
          /\ list[NounFilterCount].relevance > list[NounFilterCount + 1].relevance
          /\ rrResults = EntriesFor(rrWhich, list)
    /\ rrTopK = RecommendK
    /\ rrOut = << >>
    /\ rrPc = "called"

SpecDiversity == InitDiversity /\ [][NextRerank]_vars

\* the modifier of the most relevant entry of the list
TopModifier == rrResults[1].phrase[1]

\* the NounFilterCount most relevant entries share their modifier, and the
\* list holds entries with another modifier
TopEntriesShareModifier ==
    /\ Len(rrResults) > NounFilterCount
    /\ \A i \in 1..NounFilterCount :
          /\ rrResults[i].phrase[1] = TopModifier
          /\ \A j \in (NounFilterCount + 1)..Len(rrResults) :
                RerankRelevance(i) > RerankRelevance(j)
    /\ \E j \in 1..Len(rrResults) : rrResults[j].phrase[1] # TopModifier
    /\ \A i \in 1..Len(rrResults) :
          RerankRelevance(i) >= 0 - Scale /\ RerankRelevance(i) <= Scale

(* C22: when the 30 most relevant entries of the list share one modifier and
   the list also holds entries with another modifier, at most two of the 3
   titles the reranker returns have that modifier. *)
ModifierDiversity ==
    (rrPc = "done" /\ rrTopK = RecommendK /\ TopEntriesShareModifier) =>
        Cardinality({ k \in 1..Len(rrOut) : rrOut[k][1] = TopModifier }) <= 2

-----------------------------------------------------------------------------
(* TitleService.GenerateTitles called twice for one resume, with the same
   answers of the ML service and the same FaissDB index *)

MaxDrawIndex == 3    \* largest index rand.Intn gives in GetRandomTitles

\* answers of GenerateDynamicCombinations: the error, an empty list, one phrase
DynamicAnswers ==
    { r \in MLOutcomes : /\ Len(r.combinations) <= 1
                         /\ Len(r.details) = Len(r.combinations)
                         /\ r.top_similar = << >> }

\* indexes AddVectors builds from one batch of records of the right dimension
IndexContents ==
    { AddLoop(<< >>, FALSE, batch, 1).vectors :
        batch \in { b \in Batches : \A i \in 1..Len(b) : b[i].vector \in GoodVectors } }

\* the same surroundings for every call: the answers of the ML service (the
\* embedding is nil when GetEmbedding fails) and the index
Surroundings ==
    [dynamic : DynamicAnswers,
     embeddingOk : BOOLEAN,
     embedding : GoodVectors \cup BadVectors,
     index : IndexContents]

\* the indices GetRandomTitles ends with: RandomCount different ones
DrawSequences ==
    { d \in [1..RandomCount -> 0..MaxDrawIndex] :
        \A i, j \in 1..RandomCount : i # j => d[i] # d[j] }

\* []model.SearchResult of FaissDB.Search as diversityRanking reads it: the
\* phrase is one token, the score a multiple of 1/Scale
SearchResultsOf(found) ==
    [err |-> found.outcome # "nil",
     results |-> [i \in 1..Len(found.results) |->
                    [phrase |-> << found.results[i].phrase >>,
                     score |-> (found.results[i].score.num * Scale)
                                 \div found.results[i].score.den]]]

\* what GenerateTitles returns in surroundings env, when the map of the index
\* is walked in the order given and rand.Intn ends with the draws given
GenerateTitles(env, order, draws) ==
    IF ~DynamicPathFailed(env.dynamic)
    THEN [path |-> "dynamic", err |-> FALSE, titles |-> env.dynamic.combinations]
    ELSE IF LegacyAfterEmbedding(env.embeddingOk) = "fail"
    THEN [path |-> "failed", err |-> TRUE, titles |-> << >>]
    ELSE LET res == SearchResultsOf(SearchIndex(env.index, env.embedding, SearchTopK, order))
             next == LegacyAfterSearch(res)
         IN  CASE next = "fail" -> [path |-> "failed", err |-> TRUE, titles |-> << >>]
               [] next = "random" ->
                    [path |-> "defaulted", err |-> FALSE, titles |-> RandomTitlesOf(draws)]
               [] next = "rank" ->
                    [path |-> "ann", err |-> FALSE,
                     titles |-> diversityRanking(res.results, RecommendK)]

\* one call of GenerateTitles for the resume, the first or the second
Recommend(order, draws) ==
    /\ dtPc = "ready"
    /\ order \in Orders(DOMAIN dtEnv.index)
    /\ draws \in DrawSequences
    /\ dtRuns' = Append(dtRuns, GenerateTitles(dtEnv, order, draws))
    /\ dtPc' = IF Len(dtRuns) = 1 THEN "done" ELSE "ready"
    /\ UNCHANGED << dtEnv, notRunsVars >>

InitRuns ==
    /\ resumes = << >>
    /\ TitleIdle
    /\ IntakeIdle
    /\ RerankIdle
    /\ SimilarityIdle
    /\ FaissIdle
    /\ RetryIdle
    /\ GeneratorIdle
    /\ ExtraIdle
    /\ dtPc = "ready"
    /\ dtEnv \in Surroundings
    /\ dtRuns = << >>

NextRuns ==
    \E order \in UNION { Orders(DOMAIN i) : i \in IndexContents }, draws \in DrawSequences :
        Recommend(order, draws)

SpecRuns == InitRuns /\ [][NextRuns]_vars

(* C20: two GenerateTitles calls for the same resume, with the same answers
   of the ML service and the same index contents, return equal titles, on the
   dynamic path, the ANN fallback path and the default-titles path. *)
RecommendDeterministic ==
    dtPc = "done" =>
        /\ dtRuns[1].path = dtRuns[2].path
        /\ dtRuns[1].err = dtRuns[2].err
        /\ dtRuns[1].titles = dtRuns[2].titles

-----------------------------------------------------------------------------
(* Goroutines calling one FaissDB at the same time.  Every method takes     *)
(* f.mutex on entry and releases it, by defer, when it returns.  Each       *)
(* goroutine makes one call; a call is a sequence of steps: taking the      *)
(* lock, each read of f.vectors or each pass of the loop over the records   *)
(* or ids, the return.  sync.RWMutex also keeps new readers out while a     *)
(* writer waits; that only removes interleavings, so it is left out.        *)

MaxCallers == 3

Callers == 1..MaxCallers

ReadCalls == {"Search", "GetStats"}

WriteCalls == {"AddVectors", "Update", "Delete", "Close"}

\* the ids of the records of the AddVectors batch, and the ids given to Delete
LockBatch == << "v1", "v2" >>

\* the id given to Update
UpdateId == "v1"

\* the records f.vectors may hold when the goroutines start; 0 is an earlier call
StartVectors == { {}, { [id |-> "v1", by |-> 0] } }

\* how many times the call reads f.vectors: Search for the capacity, in the
\* loop and in the log line; GetStats for memoryUsage and for TotalVectors
ReadsOf(call) == IF call = "Search" THEN 3 ELSE 2

\* how many passes the call makes that write f.vectors
StepsOf(call) ==
    CASE call = "AddVectors" -> Len(LockBatch)
      [] call = "Delete"     -> Len(LockBatch)
      [] call = "Update"     -> 1
      [] OTHER               -> 0

\* f.vectors[id] = record, written by goroutine p
PutRecord(S, id, p) == { r \in S : r.id # id } \cup { [id |-> id, by |-> p] }

\* delete(f.vectors, id)
DeleteRecord(S, id) == { r \in S : r.id # id }

\* f.vectors after pass number step of the call made by p
Mutated(S, call, step, p) ==
    CASE call = "AddVectors" -> PutRecord(S, LockBatch[step], p)
      [] call = "Delete"     -> DeleteRecord(S, LockBatch[step])
      [] call = "Update"     -> PutRecord(S, UpdateId, p)
      [] OTHER               -> S

RLockFree_Always(writers) == TRUE

\* f.mutex.RLock() returns when nobody holds the lock for writing
RLockFree(writers) == writers = {}

\* f.mutex.Lock() returns when nobody holds the lock at all
LockFree(writers, readers) == writers = {} /\ readers = {}

Larger(a, b) == IF a > b THEN a ELSE b

RLock(p) ==
    /\ mxPc[p] = "called"
    /\ mxCall[p] \in ReadCalls
    /\ RLockFree(mxWriters)
    /\ mxReaders' = mxReaders \cup {p}
    /\ mxTogether' = Larger(mxTogether, Cardinality(mxReaders'))
    /\ mxPc' = [mxPc EXCEPT ![p] = "reading"]
    /\ UNCHANGED << mxVectors, mxWriters, mxCall, mxStep, mxSeen, mxReturned, notLockVars >>

ReadVectors(p) ==
    /\ mxPc[p] = "reading"
    /\ mxStep[p] < ReadsOf(mxCall[p])
    /\ mxSeen' = [mxSeen EXCEPT ![p] = Append(@, mxVectors)]
    /\ mxStep' = [mxStep EXCEPT ![p] = @ + 1]
    /\ UNCHANGED << mxVectors, mxWriters, mxReaders, mxPc, mxCall, mxReturned, mxTogether,
                    notLockVars >>

RUnlock(p) ==
    /\ mxPc[p] = "reading"
    /\ mxStep[p] = ReadsOf(mxCall[p])
    /\ mxReaders' = mxReaders \ {p}
    /\ mxPc' = [mxPc EXCEPT ![p] = "done"]
    /\ UNCHANGED << mxVectors, mxWriters, mxCall, mxStep, mxSeen, mxReturned, mxTogether,
                    notLockVars >>

Lock(p) ==
    /\ mxPc[p] = "called"
    /\ mxCall[p] \in WriteCalls
    /\ LockFree(mxWriters, mxReaders)
    /\ mxWriters' = mxWriters \cup {p}
    /\ mxPc' = [mxPc EXCEPT ![p] = "writing"]
    /\ UNCHANGED << mxVectors, mxReaders, mxCall, mxStep, mxSeen, mxReturned, mxTogether,
                    notLockVars >>

Mutate(p) ==
    /\ mxPc[p] = "writing"
    /\ mxStep[p] < StepsOf(mxCall[p])
    /\ mxStep' = [mxStep EXCEPT ![p] = @ + 1]
    /\ mxVectors' = Mutated(mxVectors, mxCall[p], mxStep[p] + 1, p)
    /\ UNCHANGED << mxWriters, mxReaders, mxPc, mxCall, mxSeen, mxReturned, mxTogether,
                    notLockVars >>

\* saveIndex, then the deferred f.mutex.Unlock()
Unlock(p) ==
    /\ mxPc[p] = "writing"
    /\ mxStep[p] = StepsOf(mxCall[p])
    /\ mxWriters' = mxWriters \ {p}
    /\ mxReturned' = mxReturned \cup {mxVectors}
    /\ mxPc' = [mxPc EXCEPT ![p] = "done"]
    /\ UNCHANGED << mxVectors, mxReaders, mxCall, mxStep, mxSeen, mxTogether, notLockVars >>

InitLock ==
    /\ resumes = << >>
    /\ TitleIdle
    /\ IntakeIdle
    /\ RerankIdle
    /\ SimilarityIdle
    /\ FaissIdle
    /\ RetryIdle
    /\ GeneratorIdle
    /\ RunsIdle
    /\ FilterIdle
    /\ mxVectors \in StartVectors
    /\ mxWriters = {}
    /\ mxReaders = {}
    /\ mxPc = [p \in Callers |-> "called"]
    /\ mxCall \in [Callers -> ReadCalls \cup WriteCalls]
    /\ mxStep = [p \in Callers |-> 0]
    /\ mxSeen = [p \in Callers |-> << >>]
    /\ mxReturned = {mxVectors}
    /\ mxTogether = 0

NextLock ==
    \E p \in Callers :
        \/ RLock(p)
        \/ ReadVectors(p)
        \/ RUnlock(p)
        \/ Lock(p)
        \/ Mutate(p)
        \/ Unlock(p)

SpecLock == InitLock /\ [][NextLock]_vars

\* C27: whatever the interleaving of Search, GetStats, AddVectors, Update,
\* Delete and Close calls on one index, at most one goroutine is inside a
\* mutation and then none is inside a read, and every value of f.vectors a
\* Search or GetStats reads is the one the index had when the goroutines
\* started or when some mutation returned, the same at every read of the
\* call: never a part of an AddVectors batch or of a multi-id Delete.
\* (That several reads do proceed together is the witness.)
ReadersWriterExclusion ==
    /\ Cardinality(mxWriters) <= 1
    /\ mxWriters # {} => mxReaders = {}
    /\ \A p \in DOMAIN mxSeen : \A i \in 1..Len(mxSeen[p]) :
          /\ mxSeen[p][i] \in mxReturned
          /\ mxSeen[p][i] = mxSeen[p][1]

\* two reads held the lock together, and a Search that ran after an
\* AddVectors batch returned saw both of its records
ReadersWriterExclusionWitness ==
    /\ mxTogether >= 2
    /\ \E p \in DOMAIN mxPc : \E q \in DOMAIN mxPc :
          /\ mxCall[p] = "Search"
          /\ mxPc[p] = "done"
          /\ mxCall[q] = "AddVectors"
          /\ mxPc[q] = "done"
          /\ \A i \in 1..Len(LockBatch) :
                [id |-> LockBatch[i], by |-> q] \in mxSeen[p][ReadsOf("Search")]

====
